---- MODULE Spec2Model ----
(***************************************************************************)
(* Thin-pool volume manager of the restic CSI plugin (package lvm) and the *)
(* node service in front of it.                                            *)
(*                                                                         *)
(* The repository holds two revisions of the pool manager:                 *)
(*   "thinpool"    ThinPool in src/unnamed/part_002 (lines 334-503) with   *)
(*                 Volume in src/internal/server/server.go (lines 158-318) *)
(*   "thinvolumes" ThinPool in src/internal/lvm/thinvolumes.go             *)
(* The variable impl says which revision a behaviour runs.                 *)
(*                                                                         *)
(* The volume backend (lvs, lvcreate, mkfs.xfs, lvextend, lvremove, mount, *)
(* umount, findmnt) is the state bk, poolFormatted, poolSize.  It answers  *)
(* as the backend of the repository's test does (fakeExecCommand and       *)
(* TestHelperProcess, src/unnamed/part_002 lines 14-82 and 192-327), with  *)
(* one record per volume name in place of the test's single volume.  Every *)
(* command may fail, and MaxFaults bounds the failures that are not forced *)
(* by the backend's state.                                                 *)
(*                                                                         *)
(* A call is a sequence of steps, one for each backend command it waits    *)
(* for; the code between two commands runs as part of a step.  The pool's  *)
(* collection is shared memory read and written without the lock by        *)
(* GetVolume, so the steps of refreshVolumes of different callers          *)
(* interleave, and the two stores UpdateMountStatus makes into an element  *)
(* of the collection (Mounted, then Target) are two steps: another caller  *)
(* can read the element between them.  Each access of refreshVolumes to    *)
(* the collection (the store of the new one, the load of its length, the   *)
(* load of an element's address) is a step of its own, and so are the two  *)
(* loads by which the loop of GetVolume copies Mounted and Target of the   *)
(* element it returns.  tp.Volumes and Target are values of more than one  *)
(* word: an access to one that overlaps a store to it can get the pointer  *)
(* of one value with the length of the other.                              *)
(***************************************************************************)
EXTENDS Integers, Sequences, FiniteSets, TLC

\* ---------------------------------------------------------------- bounds
MaxSize == 3
MaxFaults == 2

Names == {"a", "b"}
NameOrder == <<"a", "b">>
\* The name the calls are made for; "b" is another volume of the pool.
CallNames == {"a"}
Paths == {"/mnt/x", "/mnt/y"}
\* The mount path and the size of the two-caller specifications.
ConcPaths == {"/mnt/x"}
ConcSizes == {2}
Threads == {"t1", "t2"}
Sizes == 0..MaxSize
\* The name and the size Volume.CreateSnapshot is called with; the snapshot
\* is a volume of the volume group, outside the pool.
SnapshotNames == {"snap"}
SnapshotSizes == {1}
\* The size CreateThinVolume and Volume.Extend are called with from outside
\* the pool's calls.
DirectSizes == {2}
LvNames == Names \cup SnapshotNames

PoolDev == "/dev/vg0/pool"

\* The paths NewThinPool is called with, as sequences of characters: the
\* pool's path, the path of a volume the volume group does not have, and
\* three more paths the backend has no volume at: vg/lv, the volume group's
\* directory, and a device-mapper path (the example of NewThinPool's
\* comment).
Sl == <<"/">>
DevDir == <<"d", "e", "v">>
VgName == <<"v", "g", "0">>
PoolName == <<"p", "o", "o", "l">>
PoolPath == Sl \o DevDir \o Sl \o VgName \o Sl \o PoolName
NonePath == Sl \o DevDir \o Sl \o VgName \o Sl \o <<"n", "o", "n", "e">>
ShortPath == VgName \o Sl \o PoolName
VgPath == Sl \o DevDir \o Sl \o VgName
MapperPath ==
    Sl \o DevDir \o Sl \o <<"m", "a", "p", "p", "e", "r">> \o Sl
       \o VgName \o <<"-">> \o PoolName
LongNames == {PoolPath, NonePath, ShortPath, VgPath, MapperPath}
\* The two paths the test calls NewThinPool with.
TestLongNames == {PoolPath, NonePath}
\* The path of the specifications that are about the pool's callers.
ConcLongNames == {PoolPath}
NoThread == "none"
Impls == {"thinpool", "thinvolumes"}

VARIABLES
    impl,           \* revision of the pool manager in use
    lvAttr,         \* backend: output of "lvs <pool path> -o lv_attr"
    thinPool,       \* the pool the callers use: "nil" until NewThinPool builds it
    tpNames,        \* ThinPool.LongName, Name and VGName of that pool
    longName,       \* per thread: argument longName of NewThinPool
    driver,         \* the node service's Driver: built, config.ResticRepo
    snapshots,      \* repositories: per destination, its snapshots' times
    files,          \* the configuration file and the secret file LoadConfig read
    config,         \* what LoadConfig returned
    bk,             \* backend: per volume name, exists/size/formatted/target
    poolFormatted,  \* a filesystem was made on the pool device itself
    poolSize,       \* size the pool device was last extended to (0: never)
    tpVolumes,      \* ThinPool.Volumes
    scan,           \* per thread: the loop of GetVolume / findVolume, and its v
    refreshing,     \* per thread: where its refreshVolumes is, and its locals
    mutex,          \* ThinPool.Mutex: the thread holding it, or NoThread
    pc,             \* per thread: position in its current call
    op,             \* per thread: the call in progress
    volumeName,     \* per thread: argument volumeName
    size,           \* per thread: argument size
    mountPath,      \* per thread: argument mountPath
    volume,         \* per thread: the local *Volume of Ensure...
    held,           \* per thread: the *Volume a caller got from GetVolume
    err,            \* per thread: the call's return value
    issued,         \* per thread: backend commands issued by the current call
    faults,         \* number of injected command failures so far
    created,        \* history, per thread: its latest pool call issued lvcreate
    overlaps        \* history, per thread: the thread whose call to create
                    \* the same name was in progress when its latest began

vars == <<impl, lvAttr, thinPool, tpNames, longName, driver, snapshots, files, config, refreshing,
          bk, poolFormatted, poolSize, tpVolumes, scan, mutex, pc, op,
          volumeName, size, mountPath, volume, held, err, issued, faults,
          created, overlaps>>

hist == <<created, overlaps>>

\* ------------------------------------------------------------ data model
\* Volume (server.go 186-194); NoVolume is the nil *Volume.
NoVolume == [LVName |-> "", LVSize |-> 0, Mounted |-> FALSE, Target |-> ""]

\* What a collection's pointer reaches past the end of its array: not an
\* element.  It reads as a record that no name matches, or the read ends
\* the process, and what is stored there changes no record.
Beyond == [NoVolume EXCEPT !.LVName = "(past the end)"]

\* tp.Volumes with the pointer of collection vols and the length len.
Mixed(vols, len) ==
    [i \in 1..len |-> IF i <= Len(vols) THEN vols[i] ELSE Beyond]

\* A string with the pointer of one value and the length of another, which
\* is longer: its bytes are not the other's.
Torn == "(torn)"

\* A volume the backend does not have.  The backend keeps a size for it
\* (volumeSize, which no lvcreate and no lvremove touches).
Absent == [exists |-> FALSE, size |-> 1, formatted |-> FALSE, target |-> ""]

ExistingNames(b) == {n \in Names : b[n].exists}

\* Volume.DeviceName: /dev/<vg>/<lv>; the model names a volume's device by
\* the volume's name, and the pool's device by PoolDev.
DeviceName(v) == v.LVName

\* A command as the backend saw it: what was asked, the target's state at the
\* moment of the call, and whether the command succeeded (exit status 0).
Command(c, dev, s, b, ok) ==
    [cmd |-> c, dev |-> dev, size |-> s, ok |-> ok,
     existed |-> (dev \in LvNames /\ b[dev].exists),
     cur |-> IF dev \in LvNames THEN b[dev].size ELSE 0,
     wasFormatted |-> (dev \in LvNames /\ b[dev].formatted),
     wasMounted |-> (dev \in LvNames /\ b[dev].target # "")]

\* ------------------------------------------------------- pure functions
\* UpdateMountStatus that takes a failed query for "not mounted".
UpdateMountStatusClearing(v, b, queryOk) ==
    IF queryOk /\ v.LVName \in Names /\ b[v.LVName].target # ""
    THEN [v EXCEPT !.Mounted = TRUE, !.Target = b[v.LVName].target]
    ELSE [v EXCEPT !.Mounted = FALSE, !.Target = ""]

\* Volume.UpdateMountStatus: findmnt exit 1 -> not mounted; success ->
\* mounted at the reported target; any other failure -> record untouched.
UpdateMountStatus(v, b, queryOk) ==
    IF ~queryOk THEN v
    ELSE IF v.LVName \in Names /\ b[v.LVName].target # ""
         THEN [v EXCEPT !.Mounted = TRUE, !.Target = b[v.LVName].target]
         ELSE [v EXCEPT !.Mounted = FALSE, !.Target = ""]

\* The record json.Unmarshal builds from one row of lvs.
LvsRow(n, b) == [LVName |-> n, LVSize |-> b[n].size, Mounted |-> FALSE, Target |-> ""]

LvsRows(b) ==
    LET present == SelectSeq(NameOrder, LAMBDA n : b[n].exists)
    IN  [i \in 1..Len(present) |-> LvsRow(present[i], b)]

\* The loop of GetVolume / findVolume: a copy of the first record called n.
FindVolume(vols, n) ==
    IF \E i \in 1..Len(vols) : vols[i].LVName = n
    THEN vols[CHOOSE i \in 1..Len(vols) :
                  /\ vols[i].LVName = n
                  /\ \A j \in 1..(i-1) : vols[j].LVName # n]
    ELSE NoVolume

\* Output of lvs as a sequence of characters.  The lv_attr of a thin pool
\* and of a thin volume; NoSuchLv: lvs finds no such volume and exits with
\* an error.
ThinPoolAttr == <<" ", " ", "t", "w", "i", "\n">>
ThinVolumeAttr == <<" ", " ", "V", "w", "i", "\n">>
\* The thin pool's lv_attr after a carriage return and an ideographic
\* space, and before a carriage return and a line feed.
ThinPoolAttrCr == <<"\r", "U+3000", "t", "w", "i", "\r", "\n">>
NoSuchLv == <<>>
LvAttrs == {ThinPoolAttr, ThinVolumeAttr, ThinPoolAttrCr, NoSuchLv}
\* The outputs of an lvs that pads with spaces only.
PlainLvAttrs == {ThinPoolAttr, ThinVolumeAttr, NoSuchLv}

\* What lvs answers for path ln when the pool's lv_attr is attr: the
\* backend answers for the pool's own path and has no volume at any other.
LvAttrOf(attr, ln) == IF ln = PoolPath THEN attr ELSE NoSuchLv

\* The characters unicode.IsSpace holds for: tab, line feed, vertical tab,
\* form feed, carriage return, space, U+0085 and U+00A0, and the code points
\* above U+00FF that have the property White_Space.  A character that is
\* not written by an escape is named by its code point.
Space ==
    {"\t", "\n", "U+000B", "\f", "\r", " ", "U+0085", "U+00A0",
     "U+1680", "U+2000", "U+2001", "U+2002", "U+2003", "U+2004", "U+2005",
     "U+2006", "U+2007", "U+2008", "U+2009", "U+200A", "U+2028", "U+2029",
     "U+202F", "U+205F", "U+3000"}

\* strings.TrimSpace
RECURSIVE TrimLeft(_)
TrimLeft(str) ==
    IF str # <<>> /\ Head(str) \in Space THEN TrimLeft(Tail(str)) ELSE str

RECURSIVE TrimRight(_)
TrimRight(str) ==
    IF str # <<>> /\ str[Len(str)] \in Space
    THEN TrimRight(SubSeq(str, 1, Len(str) - 1))
    ELSE str

TrimSpace(str) == TrimRight(TrimLeft(str))

\* strings.HasPrefix
HasPrefix(str, prefix) ==
    /\ Len(str) >= Len(prefix)
    /\ SubSeq(str, 1, Len(prefix)) = prefix

\* strings.Split(str, sep) for a separator of one character
RECURSIVE Split(_, _)
Split(str, sep) ==
    IF \E i \in 1..Len(str) : str[i] = sep
    THEN LET i == CHOOSE j \in 1..Len(str) :
                     /\ str[j] = sep
                     /\ \A h \in 1..(j - 1) : str[h] # sep
         IN  <<SubSeq(str, 1, i - 1)>> \o Split(SubSeq(str, i + 1, Len(str)), sep)
    ELSE <<str>>

\* isThinPool: lvs must succeed and the trimmed lv_attr must start with "t".
isThinPool(output, ok) == ok /\ HasPrefix(TrimSpace(output), <<"t">>)

\* EnsureVolumeIsPresent: "size != 0 && volume.LVSize < size"
NeedsExtend(v, s) == s # 0 /\ v.LVSize < s

\* The device each revision hands to mkfs.xfs and to lvextend.
MkfsDevice(n) == PoolDev
ExtendDevice(v, im) == IF im = "thinpool" THEN DeviceName(v) ELSE PoolDev
RemoveDevice(v, n, im) == IF im = "thinpool" THEN DeviceName(v) ELSE n

\* ------------------------------------------------------ backend commands
\* Whether the backend can carry the command out in state b, as the test's
\* backend has it: lvcreate needs the volume not to exist, lvextend and
\* lvremove need it to exist (the pool device always does), mkfs.xfs needs
\* the volume the call is about to exist without a filesystem; mount needs
\* the device not to be mounted and umount needs it to be mounted, and
\* neither looks at whether the volume exists (part_002 lines 241-276).
CanCreate(b, n, s) == ~b[n].exists
CanFormat(b, n) == b[n].exists /\ ~b[n].formatted
CanExtend(b, dev, s) == dev \in Names => b[dev].exists
CanRemove(b, dev) == dev \in Names /\ b[dev].exists
CanMount(b, dev) == dev \in Names /\ b[dev].target = ""
CanUmount(b, dev) == dev \in Names /\ b[dev].target # ""

\* The effect of a successful command on the backend (fakeExecCommand).
\* lvcreate: the volume exists, unformatted; lvremove: it does not exist;
\* neither touches the size the backend keeps for it (volumeSize) nor the
\* mount (volumeMounted).  mkfs.xfs: the volume the call is about counts as
\* formatted, whatever device the command named.  lvextend: the volume has
\* the size asked for.
Created(b, n, s) ==
    [b EXCEPT ![n] = [exists |-> TRUE, size |-> b[n].size, formatted |-> FALSE,
                      target |-> b[n].target]]
Removed(b, dev) ==
    [b EXCEPT ![dev] = [exists |-> FALSE, size |-> b[dev].size,
                        formatted |-> FALSE, target |-> b[dev].target]]
Formatted(b, n) == [b EXCEPT ![n].formatted = TRUE]
Extended(b, dev, s) == [b EXCEPT ![dev].size = s]

\* The two outcomes of a command, success first.
Outcomes == <<TRUE, FALSE>>

\* A command's outcome: ok only if the backend can carry it out; a failure
\* the backend's state does not force is an injected fault.
Outcome(ok, can) ==
    /\ ok => can
    /\ (~ok /\ can) => faults < MaxFaults
    /\ faults' = IF ~ok /\ can THEN faults + 1 ELSE faults

\* The node service's configuration: the list config.ResticRepo of
\* destinations (each named by its Repository), and the requests' fields.
Repos == {<<>>, <<"r1">>, <<"r1", "r2">>}
VolumeIds == {"", "a"}
TargetPaths == {""} \cup Paths
NodeOps == {"publish", "unpublish"}

\* The repositories the destinations name, and the times of the snapshots
\* they may hold when the plugin starts.
MaxTime == 3
Dests == {"r1", "r2"}
Times == 1..MaxTime
NoDriver == [built |-> FALSE, ResticRepo |-> <<>>]

\* ------------------------------------------------------ configuration
\* Strings of the configuration are sequences of characters.  A value of a
\* destination's environment is a reference to the secret store when it
\* starts with "secret:"; the rest of it is the secret's key.
SecretPrefix == <<"s", "e", "c", "r", "e", "t", ":">>
PrefixLen == 7
KeyOne == <<"k", "1">>
KeyTwo == <<"k", "2">>
SecretKeys == {KeyOne, KeyTwo}
SecretValues == {<<"p", "w">>}
EnvKeys == {"RESTIC_PASSWORD"}
EnvValues ==
    {SecretPrefix \o KeyOne, SecretPrefix \o KeyTwo, SecretPrefix,
     <<"p", "l", "a", "i", "n">>, <<"s", "e", "c">>}
MaxDests == 2

\* The contents a secret file and a configuration file can have.
SecretFiles == UNION {[S -> SecretValues] : S \in SUBSET SecretKeys}
ConfigFiles ==
    UNION {[1..n -> [Environment : [EnvKeys -> EnvValues], Repository : Dests]] :
              n \in 0..MaxDests}

\* The files of the node plugin's process: no secret, and the destinations
\* of Repos with an environment that refers to none.
PlainEnvironment == [key \in EnvKeys |-> <<"p", "l", "a", "i", "n">>]
NodeSecretFiles == {<<>>}
NodeConfigFiles ==
    {[i \in 1..Len(r) |-> [Environment |-> PlainEnvironment, Repository |-> r[i]]] :
        r \in Repos}

NoFiles == [secretOk |-> FALSE, secret |-> <<>>, configOk |-> FALSE, config |-> <<>>]
NoConfig == [loaded |-> FALSE, ok |-> FALSE, ResticRepo |-> <<>>]

\* val[7:]
SecretKey(val) == SubSeq(val, PrefixLen + 1, Len(val))

\* The loop of LoadConfig over one destination's environment.
ResolveEnvironment(env, secret) ==
    [key \in DOMAIN env |->
        IF HasPrefix(env[key], SecretPrefix)
           /\ SecretKey(env[key]) \in DOMAIN secret
        THEN secret[SecretKey(env[key])]
        ELSE env[key]]

\* The loop of LoadConfig over config.ResticRepo.
ResolveSecrets(repos, secret) ==
    [i \in DOMAIN repos |->
        [repos[i] EXCEPT !.Environment = ResolveEnvironment(@, secret)]]

\* The names of a ThinPool that has not been built.
NoNames == [LongName |-> <<>>, Name |-> <<>>, VGName |-> <<>>]

\* The lvs of refreshVolumes selects by pool_lv = Name and vg_name = VGName:
\* it lists the pool's volumes when these are the pool's names.
Selects(names) == names.Name = PoolName /\ names.VGName = VgName

\* The locals of a refreshVolumes in progress.  stage is the command it
\* waits for or the access to the collection it is about to make:
\*   "lvs"      the list is being read
\*   "assign"   lvs has answered; the store "tp.Volumes = ..." is next
\*   "range"    the load of the collection's length by "for i := range"
\*   "index"    the load "tp.Volumes[i]": it checks i against the length of
\*              the collection as it is then and takes the element's address
\*   "findmnt"  the findmnt of UpdateMountStatus and its store of Mounted
\*   "target"   its store of Target
\*   "done"     refreshVolumes has returned
\* result is result.Report[0].LV, n the length the loop runs to, i the
\* index of the loop (from 1), live says that the address taken at "index"
\* is of an element of the collection the pool has now (a collection stored
\* since has replaced it otherwise), and trimmedTarget is the value
\* UpdateMountStatus is about to store in Target.
NoRefresh ==
    [stage |-> "none", result |-> <<>>, n |-> 0, i |-> 0, live |-> FALSE,
     trimmedTarget |-> ""]
StartRefresh == [NoRefresh EXCEPT !.stage = "lvs"]
DoneRefresh == [NoRefresh EXCEPT !.stage = "done"]

\* The loop of GetVolume / findVolume of a thread: done says that it has
\* loaded tp.Volumes and run up to the element called volumeName, i is that
\* element's index (0: there is none, the loop ran to its end), v the loop's
\* copy of the element, whose Target is still to be loaded while live holds:
\* the element is one of the collection the pool has now.  Once another
\* collection has been stored the element is out of every writer's reach
\* and v has the Target it will keep.
NoScan == [done |-> FALSE, i |-> 0, live |-> FALSE, v |-> NoVolume]


\* ---------------------------------------------------------------- Init
\* The volume the test's backend starts with: it exists, has no filesystem
\* yet and is not mounted.  FormattedVolume is a volume that an earlier run
\* of the plugin created and formatted.
InitVolume == [exists |-> TRUE, size |-> 1, formatted |-> FALSE, target |-> ""]
FormattedVolume == [InitVolume EXCEPT !.formatted = TRUE]

\* Before NewThinPool: the backend holds some volumes at the pool path's
\* pool (or the path is no thin pool), no snapshot, and no ThinPool has
\* been built.  The volume no call names is absent or as the test's.
Init ==
    /\ impl \in Impls
    /\ lvAttr \in LvAttrs
    /\ thinPool = "nil"
    /\ tpNames = NoNames
    /\ longName = [t \in Threads |-> <<>>]
    /\ driver = NoDriver
    /\ snapshots = [d \in Dests |-> {}]
    /\ files = NoFiles
    /\ config = NoConfig
    /\ \E a \in {Absent, InitVolume, FormattedVolume}, o \in {Absent, InitVolume} :
          bk = [n \in LvNames |-> IF n \in CallNames THEN a
                                   ELSE IF n \in Names THEN o ELSE Absent]
    /\ poolFormatted = FALSE
    /\ poolSize = 0
    /\ tpVolumes = <<>>
    /\ scan = [t \in Threads |-> NoScan]
    /\ refreshing = [t \in Threads |-> NoRefresh]
    /\ mutex = NoThread
    /\ pc = [t \in Threads |-> "idle"]
    /\ op = [t \in Threads |-> "none"]
    /\ volumeName = [t \in Threads |-> ""]
    /\ size = [t \in Threads |-> 0]
    /\ mountPath = [t \in Threads |-> ""]
    /\ volume = [t \in Threads |-> NoVolume]
    /\ held = [t \in Threads |-> NoVolume]
    /\ err = [t \in Threads |-> "none"]
    /\ issued = [t \in Threads |-> <<>>]
    /\ faults = 0
    /\ created = [t \in Threads |-> FALSE]
    /\ overlaps = [t \in Threads |-> NoThread]


\* -------------------------------------------------------------- helpers
Set(f, t, v) == [f EXCEPT ![t] = v]

PoolOps == {"present", "absent"}
\* Calls on a record a caller holds, and the package's CreateThinVolume.
VolumeOps == {"mount", "unmount", "status", "extend", "remove", "snapshot",
              "create"}

\* The ways the process ends inside a call: log.Fatalf and a run-time panic.
\* Either ends every goroutine of the process.
Ended == {"fatal", "panic"}
Running == \A t \in Threads : pc[t] \notin Ended
EndAll(how) == [t \in Threads |-> how]

\* What the lvs of refreshVolumes can answer: the list of the pool's volumes
\* ("rows"), a non-zero exit status ("error"), output that is not the JSON
\* document expected ("badjson": log.Fatalf) or a document whose report is
\* empty ("noreport": result.Report[0] is out of range).
LvsOutcomes == <<"rows", "error", "badjson", "noreport">>
EndedBy(out) == IF out = "badjson" THEN "fatal" ELSE "panic"

\* The names NewThinPool gives the pool of path ln: the fourth part of the
\* path is its Name and the third its VGName.
NamesOf(ln) ==
    LET parts == Split(ln, "/")
    IN  [LongName |-> ln, Name |-> parts[4], VGName |-> parts[3]]

\* The call of t is a NewThinPool: its refreshVolumes runs on the ThinPool
\* under construction, which no other caller can reach before NewThinPool
\* returns it, and whose Volumes are the rows that refreshVolumes decoded.
Building(t) == op[t] = "newpool"

\* LongName, Name and VGName of the pool the refreshVolumes of t runs on.
PoolNames(t) == IF Building(t) THEN NamesOf(longName[t]) ELSE tpNames

\* NewThinPool(longName) up to its refreshVolumes: the lvs of isThinPool
\* returns and decides between the error and a pool; the path is split at
\* "/" into parts, of which the fourth is the pool's Name and the third its
\* VGName (fewer than three parts are an error, exactly three an index out
\* of range); then the first refreshVolumes of the pool begins.
NewThinPool(t, ln) ==
    /\ pc[t] = "idle"
    /\ op' = Set(op, t, "newpool")
    /\ longName' = Set(longName, t, ln)
    /\ \E k \in 1..2 :
          LET ok == Outcomes[k]
              attr == LvAttrOf(lvAttr, ln)
              parts == Split(ln, "/")
          IN
          /\ ok => attr # NoSuchLv
          /\ (~ok /\ attr # NoSuchLv) => faults < MaxFaults
          /\ faults' = IF ~ok /\ attr # NoSuchLv THEN faults + 1 ELSE faults
          /\ IF ~isThinPool(attr, ok)
             THEN /\ err' = Set(err, t, "thin pool does not exist")
                  /\ pc' = Set(pc, t, "newret")
                  /\ UNCHANGED refreshing
             ELSE IF Len(parts) < 3
             THEN /\ err' = Set(err, t, "invalid thin pool path")
                  /\ pc' = Set(pc, t, "newret")
                  /\ UNCHANGED refreshing
             ELSE IF Len(parts) < 4
             THEN /\ pc' = EndAll("panic")
                  /\ UNCHANGED <<err, refreshing>>
             ELSE /\ pc' = Set(pc, t, "newpool")
                  /\ refreshing' = Set(refreshing, t, StartRefresh)
                  /\ UNCHANGED err
    /\ UNCHANGED <<impl, lvAttr, thinPool, tpNames, tpVolumes, scan, driver, snapshots,
                   files, config, bk, poolFormatted, poolSize, mutex,
                   volumeName, size, mountPath, volume, held, issued, hist>>

\* The refreshVolumes of NewThinPool has returned; its error is not looked
\* at, and NewThinPool returns the pool with the Volumes that refreshVolumes
\* left and a nil error.  The callers use the first pool that is built; a
\* pool built later is dropped by the caller, which keeps the error only.
NewThinPoolBuilt(t) ==
    /\ pc[t] = "newpool"
    /\ refreshing[t].stage = "done"
    /\ refreshing' = Set(refreshing, t, NoRefresh)
    /\ err' = Set(err, t, "nil")
    /\ pc' = Set(pc, t, "newret")
    /\ IF thinPool = "nil"
       THEN /\ thinPool' = "pool"
            /\ tpNames' = NamesOf(longName[t])
            /\ tpVolumes' = refreshing[t].result
       ELSE UNCHANGED <<thinPool, tpNames, tpVolumes>>
    /\ UNCHANGED <<impl, lvAttr, longName, driver, snapshots, files, config, bk,
                   poolFormatted, poolSize, scan, mutex, op, volumeName, size,
                   mountPath, volume, held, issued, faults, hist>>

\* NewThinPool has returned.
NewThinPoolReturn(t) ==
    /\ pc[t] = "newret"
    /\ pc' = Set(pc, t, "idle")
    /\ op' = Set(op, t, "none")
    /\ longName' = Set(longName, t, <<>>)
    /\ err' = Set(err, t, "none")
    /\ UNCHANGED <<impl, lvAttr, thinPool, tpNames, driver, snapshots, files,
                   config, refreshing, bk, poolFormatted, poolSize, tpVolumes, scan,
                   mutex, volumeName, size, mountPath, volume, held, issued,
                   faults, hist>>

\* ---------------------------------------- refreshVolumes, step by step
\* /usr/sbin/lvs runs: it reads the backend's list of the volumes of the
\* pool called tp.Name in tp.VGName (the backend has no list for other
\* names: that lvs fails without a fault).  A failure returns the error at
\* once, with the collection untouched; undecodable output ends the
\* process.
RefreshLvs(t) ==
    /\ pc[t] \notin Ended
    /\ refreshing[t].stage = "lvs"
    /\ \E k \in 1..Len(LvsOutcomes) :
          LET out == LvsOutcomes[k]
              forced == out = "rows" \/ (out = "error" /\ ~Selects(PoolNames(t)))
          IN
          /\ out = "rows" => Selects(PoolNames(t))
          /\ ~forced => faults < MaxFaults
          /\ faults' = IF forced THEN faults ELSE faults + 1
          /\ refreshing' = Set(refreshing, t,
                IF out = "rows"
                THEN [StartRefresh EXCEPT !.stage = "assign", !.result = LvsRows(bk)]
                ELSE DoneRefresh)
          /\ pc' = IF out \in {"rows", "error"} THEN pc
                   ELSE EndAll(EndedBy(out))
    /\ UNCHANGED <<impl, lvAttr, thinPool, tpNames, longName, driver, snapshots, files, config, bk,
                   poolFormatted, poolSize, tpVolumes, scan, mutex, op, volumeName,
                   size, mountPath, volume, held, err, issued, hist>>

\* The locals of refreshVolumes once it has returned; the pool under
\* construction keeps its Volumes in result.
Finished(t, r) ==
    IF Building(t) THEN [DoneRefresh EXCEPT !.result = r.result] ELSE DoneRefresh

\* The locals of every refreshVolumes after the one of t has stored a
\* collection in the pool the callers share: t goes on to its loop
\* ("thinpool") or returns, and the addresses the others have taken are of
\* elements of the collection that was replaced.
Stored(t) ==
    [u \in Threads |->
        IF u = t
        THEN IF impl = "thinpool" THEN [StartRefresh EXCEPT !.stage = "range"]
             ELSE DoneRefresh
        ELSE IF Building(u) THEN refreshing[u]
        ELSE [refreshing[u] EXCEPT !.live = FALSE]]

\* The loops of GetVolume after a collection has been stored in the pool
\* the callers share: a loop that has yet to load the Target of its element
\* will find it as it is now, in the collection that was replaced.
Replaced ==
    [u \in Threads |->
        IF scan[u].live
        THEN [scan[u] EXCEPT !.live = FALSE,
                             !.v.Target = tpVolumes[scan[u].i].Target]
        ELSE scan[u]]

\* lvs has returned: "tp.Volumes = result.Report[0].LV".
RefreshAssign(t) ==
    /\ pc[t] \notin Ended
    /\ refreshing[t].stage = "assign"
    /\ IF Building(t)
       THEN /\ refreshing' = Set(refreshing, t,
                  IF impl = "thinpool"
                  THEN [refreshing[t] EXCEPT !.stage = "range"]
                  ELSE Finished(t, refreshing[t]))
            /\ UNCHANGED <<tpVolumes, scan>>
       ELSE /\ tpVolumes' = refreshing[t].result
            /\ refreshing' = Stored(t)
            /\ scan' = Replaced
    /\ UNCHANGED <<impl, lvAttr, thinPool, tpNames, longName, driver, snapshots, files, config, bk,
                   poolFormatted, poolSize, mutex, pc, op, volumeName, size,
                   mountPath, volume, held, err, issued, faults, hist>>

\* The Volumes of the pool the refreshVolumes of t runs on.
Volumes(t) == IF Building(t) THEN refreshing[t].result ELSE tpVolumes

\* "for i := range tp.Volumes" begins ("thinpool"): it loads the length of
\* the collection the pool has at this moment, and the loop runs to that
\* length whatever is stored in tp.Volumes later.
RefreshRange(t) ==
    /\ pc[t] \notin Ended
    /\ refreshing[t].stage = "range"
    /\ LET r == refreshing[t]
           n == Len(Volumes(t))
       IN refreshing' = Set(refreshing, t,
             IF n = 0 THEN Finished(t, r)
             ELSE [r EXCEPT !.stage = "index", !.n = n, !.i = 1])
    /\ UNCHANGED <<impl, lvAttr, thinPool, tpNames, longName, driver, snapshots, files, config, bk,
                   poolFormatted, poolSize, tpVolumes, scan, mutex, pc, op, volumeName,
                   size, mountPath, volume, held, err, issued, faults, hist>>

\* "tp.Volumes[i]", the receiver of UpdateMountStatus: tp.Volumes is loaded
\* again and i is checked against its length, which panics when the
\* collection the pool has now is shorter than the one the loop started on;
\* otherwise the element's address is taken and findmnt is started (on what
\* is past the end of the array, this may end the process as well).
RefreshIndex(t) ==
    /\ pc[t] \notin Ended
    /\ refreshing[t].stage = "index"
    /\ LET r == refreshing[t]
       IN \/ /\ r.i <= Len(Volumes(t))
             /\ refreshing' = Set(refreshing, t,
                   [r EXCEPT !.stage = "findmnt", !.live = TRUE])
             /\ UNCHANGED pc
          \/ /\ IF r.i > Len(Volumes(t)) THEN TRUE ELSE Volumes(t)[r.i] = Beyond
             /\ refreshing' = Set(refreshing, t, DoneRefresh)
             /\ pc' = EndAll("panic")
    /\ UNCHANGED <<impl, lvAttr, thinPool, tpNames, longName, driver, snapshots, files, config, bk,
                   poolFormatted, poolSize, tpVolumes, scan, mutex, op, volumeName,
                   size, mountPath, volume, held, err, issued, faults, hist>>

\* tp.Volumes[i].UpdateMountStatus() has returned, r being the locals of
\* refreshVolumes then: the loop goes on to the next index, or
\* refreshVolumes returns.
LoopOn(t, r) ==
    refreshing' = Set(refreshing, t,
       IF r.i = r.n THEN Finished(t, r)
       ELSE [r EXCEPT !.stage = "index", !.i = r.i + 1, !.live = FALSE,
                      !.trimmedTarget = ""])

\* The findmnt of tp.Volumes[i].UpdateMountStatus() returns.  A failed
\* query leaves the element as it is (its error is dropped) and the loop
\* goes on.  Otherwise UpdateMountStatus makes the first of its two stores
\* into the element whose address was taken: Mounted is false after exit
\* status 1 and true after a success; the store of Target is the next step.
\* The stores into an element of a collection that has been replaced reach
\* no record of the pool, and the loop goes on.
RefreshMountStatus(t) ==
    /\ pc[t] \notin Ended
    /\ refreshing[t].stage = "findmnt"
    /\ LET r == refreshing[t]
       IN \E k \in 1..2 : LET ok == Outcomes[k] IN
          /\ Outcome(ok, TRUE)
          /\ IF ~ok \/ ~r.live
             THEN /\ LoopOn(t, r)
                  /\ UNCHANGED tpVolumes
             ELSE LET name == Volumes(t)[r.i].LVName
                      target == IF name \in Names THEN bk[name].target ELSE ""
                      stored == [r EXCEPT !.stage = "target", !.trimmedTarget = target]
                  IN IF Building(t)
                     THEN /\ refreshing' = Set(refreshing, t,
                                [stored EXCEPT !.result[r.i].Mounted = (target # "")])
                          /\ UNCHANGED tpVolumes
                     ELSE /\ tpVolumes' = [tpVolumes EXCEPT ![r.i].Mounted = (target # "")]
                          /\ refreshing' = Set(refreshing, t, stored)
    /\ UNCHANGED <<impl, lvAttr, thinPool, tpNames, longName, driver, snapshots, files, config, bk,
                   poolFormatted, poolSize, scan, mutex, pc, op, volumeName, size,
                   mountPath, volume, held, err, issued, hist>>

\* The second store of UpdateMountStatus: Target becomes the empty string
\* after exit status 1 and the trimmed output of findmnt after a success.
\* UpdateMountStatus returns and the loop goes on.
RefreshStoreTarget(t) ==
    /\ pc[t] \notin Ended
    /\ refreshing[t].stage = "target"
    /\ LET r == refreshing[t]
       IN IF ~r.live
          THEN /\ LoopOn(t, r)
               /\ UNCHANGED tpVolumes
          ELSE IF Building(t)
          THEN /\ LoopOn(t, [r EXCEPT !.result[r.i].Target = r.trimmedTarget])
               /\ UNCHANGED tpVolumes
          ELSE /\ tpVolumes' = [tpVolumes EXCEPT ![r.i].Target = r.trimmedTarget]
               /\ LoopOn(t, r)
    /\ UNCHANGED <<impl, lvAttr, thinPool, tpNames, longName, driver, snapshots, files, config, bk,
                   poolFormatted, poolSize, scan, mutex, pc, op, volumeName, size,
                   mountPath, volume, held, err, issued, faults, hist>>

\* The stores "tp.Volumes = ..." of the refreshVolumes of t and of u, of
\* collections of different lengths, overlap: tp.Volumes is left with the
\* pointer of t's collection and the length of u's.
TornStore(t, u) ==
    /\ pc[t] \notin Ended
    /\ refreshing[t].stage = "assign" /\ ~Building(t)
    /\ refreshing[u].stage = "assign" /\ ~Building(u)
    /\ Len(refreshing[t].result) # Len(refreshing[u].result)
    /\ tpVolumes' = Mixed(refreshing[t].result, Len(refreshing[u].result))
    /\ refreshing' = [Stored(t) EXCEPT ![u] = Stored(u)[u]]
    /\ scan' = Replaced
    /\ UNCHANGED <<impl, lvAttr, thinPool, tpNames, longName, driver, snapshots, files, config, bk,
                   poolFormatted, poolSize, mutex, pc, op, volumeName, size,
                   mountPath, volume, held, err, issued, faults, hist>>

\* The load "tp.Volumes[i]" by the refreshVolumes of t overlaps the store
\* "tp.Volumes = ..." by the one of u, of a collection of another length: i
\* is checked against the length of one collection and the address is taken
\* from the pointer of the other (new: of the one being stored).
TornIndex(t, u) ==
    /\ pc[t] \notin Ended
    /\ refreshing[t].stage = "index" /\ ~Building(t)
    /\ refreshing[u].stage = "assign" /\ ~Building(u)
    /\ Len(refreshing[u].result) # Len(tpVolumes)
    /\ tpVolumes' = refreshing[u].result
    /\ scan' = Replaced
    /\ \E new \in BOOLEAN :
          LET r == refreshing[t]
              vols == IF new
                      THEN Mixed(refreshing[u].result, Len(tpVolumes))
                      ELSE Mixed(tpVolumes, Len(refreshing[u].result))
          IN  \/ /\ r.i <= Len(vols)
                 /\ refreshing' = [Stored(u) EXCEPT ![t] =
                       [r EXCEPT !.stage = "findmnt",
                                 !.live = new /\ vols[r.i] # Beyond]]
                 /\ UNCHANGED pc
              \/ /\ IF r.i > Len(vols) THEN TRUE ELSE vols[r.i] = Beyond
                 /\ refreshing' = [Stored(u) EXCEPT ![t] = DoneRefresh]
                 /\ pc' = EndAll("panic")
    /\ UNCHANGED <<impl, lvAttr, thinPool, tpNames, longName, driver, snapshots, files, config, bk,
                   poolFormatted, poolSize, mutex, op, volumeName, size,
                   mountPath, volume, held, err, issued, faults, hist>>

\* The steps of a refreshVolumes in progress.
RefreshStep(t) ==
    \/ RefreshLvs(t)
    \/ RefreshAssign(t)
    \/ RefreshRange(t)
    \/ RefreshIndex(t)
    \/ RefreshMountStatus(t)
    \/ RefreshStoreTarget(t)


\* History only.  overlaps[t] is the thread whose EnsureVolumeIsPresent for
\* the same name, then absent from the pool, had begun and not yet made its
\* existence check when the EnsureVolumeIsPresent of t began; a thread that
\* begins a new call is no longer the call another one overlapped.
InPoolCall(u, n) ==
    /\ pc[u] \in {"lock", "get"} /\ op[u] = "present" /\ volumeName[u] = n
    /\ ~bk[n].exists

BeginPoolCall(t, n, o) ==
    /\ created' = Set(created, t, FALSE)
    /\ overlaps' = [u \in Threads |->
          IF u = t
          THEN IF o = "present" /\ \E w \in Threads \ {t} : InPoolCall(w, n)
               THEN CHOOSE w \in Threads \ {t} : InPoolCall(w, n)
               ELSE NoThread
          ELSE IF overlaps[u] = t THEN NoThread ELSE overlaps[u]]

\* ------------------------------------------------- EnsureVolumeIsPresent
CallEnsureVolumeIsPresent(t, n, s) ==
    /\ thinPool = "pool"
    /\ pc[t] = "idle"
    /\ pc' = Set(pc, t, "lock")
    /\ op' = Set(op, t, "present")
    /\ volumeName' = Set(volumeName, t, n)
    /\ size' = Set(size, t, s)
    /\ BeginPoolCall(t, n, "present")
    /\ UNCHANGED <<impl, lvAttr, thinPool, tpNames, longName, driver, snapshots, files, config, refreshing, bk, poolFormatted, poolSize, tpVolumes, scan, mutex,
                   mountPath, volume, held, err, issued, faults>>

CallEnsureVolumeIsAbsent(t, n) ==
    /\ thinPool = "pool"
    /\ pc[t] = "idle"
    /\ pc' = Set(pc, t, "lock")
    /\ op' = Set(op, t, "absent")
    /\ volumeName' = Set(volumeName, t, n)
    /\ BeginPoolCall(t, n, "absent")
    /\ UNCHANGED <<impl, lvAttr, thinPool, tpNames, longName, driver, snapshots, files, config, refreshing, bk, poolFormatted, poolSize, tpVolumes, scan, mutex, size,
                   mountPath, volume, held, err, issued, faults>>

\* A lock that does not wait for its holder to release it.
LockNoWait(t) ==
    /\ pc[t] = "lock"
    /\ mutex' = t
    /\ pc' = Set(pc, t, "get")
    /\ refreshing' = Set(refreshing, t, StartRefresh)
    /\ UNCHANGED <<impl, lvAttr, thinPool, tpNames, longName, driver, snapshots, files, config, bk, poolFormatted, poolSize, tpVolumes, scan, op,
                   volumeName, size, mountPath, volume, held, err, issued,
                   faults, hist>>

\* tp.Lock(); the call goes on into GetVolume / findVolume, which begins
\* with refreshVolumes.
Lock(t) ==
    /\ pc[t] = "lock"
    /\ mutex = NoThread
    /\ mutex' = t
    /\ pc' = Set(pc, t, "get")
    /\ refreshing' = Set(refreshing, t, StartRefresh)
    /\ UNCHANGED <<impl, lvAttr, thinPool, tpNames, longName, driver, snapshots, files, config, bk, poolFormatted, poolSize, tpVolumes, scan, op,
                   volumeName, size, mountPath, volume, held, err, issued,
                   faults, hist>>

\* The position a call returns from: EnsureVolumeIsPresent / Absent return
\* through the deferred Unlock, a call on a record returns directly.
ReturnPc(t) == IF op[t] \in PoolOps THEN "ret" ELSE "vret"

\* The record a Volume method runs on: the one GetVolume gave the pool's
\* call, or the one the caller holds.
Receiver(t) == IF op[t] \in PoolOps THEN volume[t] ELSE held[t]

\* The index of the first element of vols called n, or 0.
IndexOf(vols, n) ==
    LET I == {i \in 1..Len(vols) : vols[i].LVName = n}
    IN  IF I = {} THEN 0 ELSE CHOOSE i \in I : \A j \in I : i <= j

\* The loop "for _, v := range tp.Volumes" of GetVolume / findVolume over
\* collection vols, up to the element called n: each turn copies an element
\* into v, the last of them but for its Target.  live: vols is the
\* collection the pool has.
Loop(vols, n, live) ==
    LET k == IndexOf(vols, n)
    IN  [done |-> TRUE, i |-> k, live |-> live /\ k # 0,
         v |-> IF k = 0 THEN NoVolume
               ELSE IF live THEN [vols[k] EXCEPT !.Target = ""]
               ELSE vols[k]]

\* That loop reads past the end of the array.
ReadsBeyond(vols, n) ==
    \E i \in 1..Len(vols) :
       /\ vols[i] = Beyond
       /\ IF IndexOf(vols, n) = 0 THEN TRUE ELSE i < IndexOf(vols, n)

\* GetVolume / findVolume once its refreshVolumes has returned: the loop
\* loads tp.Volumes and runs over the collection it finds.
GetVolumeLoop(t) ==
    /\ pc[t] \in {"get", "getvolume"}
    /\ refreshing[t].stage = "done"
    /\ ~scan[t].done
    /\ \/ /\ scan' = Set(scan, t, Loop(tpVolumes, volumeName[t], TRUE))
          /\ UNCHANGED pc
       \/ /\ ReadsBeyond(tpVolumes, volumeName[t])
          /\ pc' = EndAll("panic")
          /\ UNCHANGED scan
    /\ UNCHANGED <<impl, lvAttr, thinPool, tpNames, longName, driver, snapshots, files, config, refreshing, bk, poolFormatted, poolSize, tpVolumes, mutex, op,
                   volumeName, size, mountPath, volume, held, err, issued,
                   faults, hist>>

\* The load of tp.Volumes by the loop of t's GetVolume overlaps the store
\* "tp.Volumes = ..." by the refreshVolumes of u, of a collection of another
\* length: the loop has the pointer of one collection (new: the one being
\* stored) and the length of the other.
TornLoad(t, u) ==
    /\ pc[t] \in {"get", "getvolume"}
    /\ refreshing[t].stage = "done"
    /\ ~scan[t].done
    /\ pc[u] \notin Ended
    /\ refreshing[u].stage = "assign" /\ ~Building(u)
    /\ Len(refreshing[u].result) # Len(tpVolumes)
    /\ tpVolumes' = refreshing[u].result
    /\ refreshing' = Stored(u)
    /\ \E new \in BOOLEAN :
          LET vols == IF new
                      THEN Mixed(refreshing[u].result, Len(tpVolumes))
                      ELSE Mixed(tpVolumes, Len(refreshing[u].result))
          IN  \/ /\ scan' = [Replaced EXCEPT ![t] = Loop(vols, volumeName[t], new)]
                 /\ UNCHANGED pc
              \/ /\ ReadsBeyond(vols, volumeName[t])
                 /\ scan' = Replaced
                 /\ pc' = EndAll("panic")
    /\ UNCHANGED <<impl, lvAttr, thinPool, tpNames, longName, driver, snapshots, files, config, bk,
                   poolFormatted, poolSize, mutex, op, volumeName, size,
                   mountPath, volume, held, err, issued, faults, hist>>


\* The loop of GetVolume / findVolume returns: with a pointer to v, whose
\* Target it loads from the element now, or with nil after its last turn.
\* Between the load of Mounted and this one UpdateMountStatus may have made
\* none, one or both of its stores into the element.
Copied(t) ==
    LET s == scan[t]
    IN  IF s.i = 0 THEN NoVolume
        ELSE IF s.live THEN [s.v EXCEPT !.Target = tpVolumes[s.i].Target]
        ELSE s.v

\* The store of Target that is next for the refreshVolumes of u is of
\* another value into the element the loop of t is about to load Target of.
StoresInto(u, t) ==
    /\ refreshing[u].stage = "target" /\ refreshing[u].live /\ ~Building(u)
    /\ scan[t].live /\ refreshing[u].i = scan[t].i
    /\ refreshing[u].trimmedTarget # tpVolumes[scan[t].i].Target

\* The records the loop can return: the copy, and the copy with a torn
\* Target when the load of Target can overlap a store to it.
Copies(t) ==
    {Copied(t)} \cup
       {[Copied(t) EXCEPT !.Target = Torn] : u \in {w \in Threads \ {t} : StoresInto(w, t)}}


\* volume := tp.GetVolume(volumeName) returns and EnsureVolumeIsPresent
\* takes its branch.
PresentCheck(t) ==
    /\ pc[t] = "get" /\ op[t] = "present"
    /\ scan[t].done
    /\ refreshing' = Set(refreshing, t, NoRefresh)
    /\ scan' = Set(scan, t, NoScan)
    /\ \E v \in Copies(t) :
           /\ volume' = Set(volume, t, v)
           /\ IF v = NoVolume
              THEN pc' = Set(pc, t, "create") /\ UNCHANGED err
              ELSE IF NeedsExtend(v, size[t])
                   THEN pc' = Set(pc, t, "extend") /\ UNCHANGED err
                   ELSE pc' = Set(pc, t, "ret") /\ err' = Set(err, t, "nil")
    /\ UNCHANGED <<impl, lvAttr, thinPool, tpNames, longName, driver, snapshots, files, config, bk, poolFormatted, poolSize, tpVolumes, mutex, op, volumeName,
                   size, mountPath, held, issued, faults, hist>>


\* CreateThinVolume called by a user of the pool with the pool's long name,
\* outside the pool's lock; the *Volume it returns is not kept.
CallCreateThinVolume(t, n, s) ==
    /\ impl = "thinpool"
    /\ thinPool = "pool"
    /\ pc[t] = "idle"
    /\ pc' = Set(pc, t, "create")
    /\ op' = Set(op, t, "create")
    /\ volumeName' = Set(volumeName, t, n)
    /\ size' = Set(size, t, s)
    /\ UNCHANGED <<impl, lvAttr, thinPool, tpNames, longName, driver, snapshots, files, config, refreshing, bk, poolFormatted, poolSize, tpVolumes, scan, mutex,
                   mountPath, volume, held, err, issued, faults, hist>>

\* CreateThinVolume / createVolume, first command: lvcreate -V size -T pool -n name
LvCreate(t) ==
    /\ pc[t] = "create"
    /\ LET n == volumeName[t]
           s == size[t]
       IN \E k \in 1..2 : LET ok == Outcomes[k] IN
          /\ Outcome(ok, CanCreate(bk, n, s))
          /\ issued' = Set(issued, t, Append(issued[t], Command("lvcreate", n, s, bk, ok)))
          /\ created' = Set(created, t, TRUE)
          /\ IF ok
             THEN /\ bk' = Created(bk, n, s)
                  /\ pc' = Set(pc, t, "mkfs")
                  /\ UNCHANGED err
             ELSE /\ pc' = Set(pc, t, ReturnPc(t))
                  /\ err' = Set(err, t, "failed to create volume")
                  /\ UNCHANGED bk
    /\ UNCHANGED <<impl, lvAttr, thinPool, tpNames, longName, driver, snapshots, files, config, refreshing, poolFormatted, poolSize, tpVolumes, scan, mutex, op,
                   volumeName, size, mountPath, volume, held, overlaps>>

\* What a call goes on to after the last command of a successful create,
\* extend or remove: tp.refreshVolumes() in the pool's calls ("thinvolumes"
\* has none after an extend), the return in a call on a record.
AfterMutation(t, refreshes) ==
    IF op[t] \in PoolOps /\ refreshes
    THEN /\ pc' = Set(pc, t, "refresh")
         /\ refreshing' = Set(refreshing, t, StartRefresh)
         /\ UNCHANGED err
    ELSE /\ pc' = Set(pc, t, ReturnPc(t))
         /\ err' = Set(err, t, "nil")
         /\ UNCHANGED refreshing

\* mkfs.xfs whose error is not looked at: the call goes on as after a
\* success.
MkfsUnchecked(t) ==
    /\ pc[t] = "mkfs"
    /\ LET dev == MkfsDevice(volumeName[t])
       IN \E k \in 1..2 : LET ok == Outcomes[k] IN
          /\ Outcome(ok, CanFormat(bk, volumeName[t]))
          /\ issued' = Set(issued, t, Append(issued[t], Command("mkfs", dev, 0, bk, ok)))
          /\ IF ok
             THEN /\ bk' = Formatted(bk, volumeName[t])
                  /\ poolFormatted' = (poolFormatted \/ dev = PoolDev)
             ELSE UNCHANGED <<bk, poolFormatted>>
          /\ AfterMutation(t, TRUE)
    /\ UNCHANGED <<impl, lvAttr, thinPool, tpNames, longName, driver, snapshots, files, config, poolSize, tpVolumes, scan, mutex, op, volumeName, size,
                   mountPath, volume, held, hist>>

\* CreateThinVolume / createVolume, second command: mkfs.xfs <device>.  The
\* device is the pool's; the backend takes the command for the format of
\* the volume just created.
Mkfs(t) ==
    /\ pc[t] = "mkfs"
    /\ LET dev == MkfsDevice(volumeName[t])
       IN \E k \in 1..2 : LET ok == Outcomes[k] IN
          /\ Outcome(ok, CanFormat(bk, volumeName[t]))
          /\ issued' = Set(issued, t, Append(issued[t], Command("mkfs", dev, 0, bk, ok)))
          /\ IF ok
             THEN /\ bk' = Formatted(bk, volumeName[t])
                  /\ poolFormatted' = (poolFormatted \/ dev = PoolDev)
                  /\ AfterMutation(t, TRUE)
             ELSE /\ pc' = Set(pc, t, ReturnPc(t))
                  /\ err' = Set(err, t, "failed to create filesystem")
                  /\ UNCHANGED <<bk, poolFormatted, refreshing>>
    /\ UNCHANGED <<impl, lvAttr, thinPool, tpNames, longName, driver, snapshots, files, config, poolSize, tpVolumes, scan, mutex, op, volumeName, size,
                   mountPath, volume, held, hist>>

\* Volume.Extend called on a record the caller holds, outside the pool's lock
CallExtend(t, s) ==
    /\ impl = "thinpool"
    /\ pc[t] = "idle"
    /\ held[t] # NoVolume
    /\ pc' = Set(pc, t, "extend")
    /\ op' = Set(op, t, "extend")
    /\ size' = Set(size, t, s)
    /\ UNCHANGED <<impl, lvAttr, thinPool, tpNames, longName, driver, snapshots, files, config, refreshing, bk, poolFormatted, poolSize, tpVolumes, scan, mutex,
                   volumeName, mountPath, volume, held, err, issued, faults, hist>>

\* Volume.Extend / extendVolume: lvextend --size size --resizefs <device>;
\* "thinpool" refreshes on success, "thinvolumes" returns at once.
Extend(t) ==
    /\ pc[t] = "extend"
    /\ LET dev == ExtendDevice(Receiver(t), impl)
           s == size[t]
       IN \E k \in 1..2 : LET ok == Outcomes[k] IN
          /\ Outcome(ok, CanExtend(bk, dev, s))
          /\ issued' = Set(issued, t, Append(issued[t], Command("lvextend", dev, s, bk, ok)))
          /\ IF ok
             THEN /\ IF dev \in Names
                     THEN bk' = Extended(bk, dev, s) /\ UNCHANGED poolSize
                     ELSE poolSize' = s /\ UNCHANGED bk
                  /\ AfterMutation(t, impl = "thinpool")
             ELSE /\ pc' = Set(pc, t, ReturnPc(t))
                  /\ err' = Set(err, t, "failed to extend volume")
                  /\ UNCHANGED <<bk, poolSize, refreshing>>
    /\ UNCHANGED <<impl, lvAttr, thinPool, tpNames, longName, driver, snapshots, files, config, poolFormatted, tpVolumes, scan, mutex, op, volumeName,
                   size, mountPath, volume, held, hist>>

\* tp.refreshVolumes() after a successful mutation has returned; its error
\* is dropped and the call returns nil.
RefreshAfter(t) ==
    /\ pc[t] = "refresh"
    /\ refreshing[t].stage = "done"
    /\ refreshing' = Set(refreshing, t, NoRefresh)
    /\ pc' = Set(pc, t, "ret")
    /\ err' = Set(err, t, "nil")
    /\ UNCHANGED <<impl, lvAttr, thinPool, tpNames, longName, driver, snapshots, files, config, bk, poolFormatted, poolSize, tpVolumes, scan, mutex, op, volumeName,
                   size, mountPath, volume, held, issued, faults, hist>>

\* -------------------------------------------------- EnsureVolumeIsAbsent
\* volume := tp.GetVolume(volumeName) returns and EnsureVolumeIsAbsent
\* takes its branch.
AbsentCheck(t) ==
    /\ pc[t] = "get" /\ op[t] = "absent"
    /\ scan[t].done
    /\ refreshing' = Set(refreshing, t, NoRefresh)
    /\ scan' = Set(scan, t, NoScan)
    /\ \E v \in Copies(t) :
           /\ volume' = Set(volume, t, v)
           /\ IF v = NoVolume
              THEN pc' = Set(pc, t, "ret") /\ err' = Set(err, t, "nil")
              ELSE pc' = Set(pc, t, "remove") /\ UNCHANGED err
    /\ UNCHANGED <<impl, lvAttr, thinPool, tpNames, longName, driver, snapshots, files, config, bk, poolFormatted, poolSize, tpVolumes, mutex, op, volumeName,
                   size, mountPath, held, issued, faults, hist>>


\* Volume.Remove called on a record the caller holds, outside the pool's lock
CallRemove(t) ==
    /\ impl = "thinpool"
    /\ pc[t] = "idle"
    /\ held[t] # NoVolume
    /\ pc' = Set(pc, t, "remove")
    /\ op' = Set(op, t, "remove")
    /\ UNCHANGED <<impl, lvAttr, thinPool, tpNames, longName, driver, snapshots, files, config, refreshing, bk, poolFormatted, poolSize, tpVolumes, scan, mutex,
                   volumeName, size, mountPath, volume, held, err, issued,
                   faults, hist>>

\* Volume.Remove / removeVolume: lvremove -f <device>
Remove(t) ==
    /\ pc[t] = "remove"
    /\ LET dev == RemoveDevice(Receiver(t), volumeName[t], impl)
       IN \E k \in 1..2 : LET ok == Outcomes[k] IN
          /\ Outcome(ok, CanRemove(bk, dev))
          /\ issued' = Set(issued, t, Append(issued[t], Command("lvremove", dev, 0, bk, ok)))
          /\ IF ok
             THEN /\ bk' = Removed(bk, dev)
                  /\ AfterMutation(t, TRUE)
             ELSE /\ pc' = Set(pc, t, ReturnPc(t))
                  /\ err' = Set(err, t, "failed to remove volume")
                  /\ UNCHANGED <<bk, refreshing>>
    /\ UNCHANGED <<impl, lvAttr, thinPool, tpNames, longName, driver, snapshots, files, config, poolFormatted, poolSize, tpVolumes, scan, mutex, op,
                   volumeName, size, mountPath, volume, held, hist>>

\* return, with the deferred tp.Unlock()
Return(t) ==
    /\ pc[t] = "ret" /\ op[t] \in PoolOps
    /\ mutex' = NoThread
    /\ pc' = Set(pc, t, "idle")
    /\ op' = Set(op, t, "none")
    /\ volumeName' = Set(volumeName, t, "")
    /\ size' = Set(size, t, 0)
    /\ volume' = Set(volume, t, NoVolume)
    /\ err' = Set(err, t, "none")
    /\ issued' = Set(issued, t, <<>>)
    /\ UNCHANGED <<impl, lvAttr, thinPool, tpNames, longName, driver, snapshots, files, config, refreshing, bk, poolFormatted, poolSize, tpVolumes, scan, mountPath,
                   held, faults, hist>>


\* ------------------------------------------------------------- GetVolume
\* ThinPool.GetVolume called by a user of the pool: it takes no lock and
\* begins with refreshVolumes.
GetVolume(t, n) ==
    /\ impl = "thinpool"
    /\ thinPool = "pool"
    /\ pc[t] = "idle"
    /\ pc' = Set(pc, t, "getvolume")
    /\ op' = Set(op, t, "getvolume")
    /\ volumeName' = Set(volumeName, t, n)
    /\ refreshing' = Set(refreshing, t, StartRefresh)
    /\ UNCHANGED <<impl, lvAttr, thinPool, tpNames, longName, driver, snapshots, files, config, bk, poolFormatted, poolSize, tpVolumes, scan, mutex,
                   size, mountPath, volume, held, err, issued, faults, hist>>

\* GetVolume returns to the user of the pool what its loop hands out: a
\* pointer to the copy v, or nil.
GetVolumeReturn(t) ==
    /\ pc[t] = "getvolume"
    /\ scan[t].done
    /\ refreshing' = Set(refreshing, t, NoRefresh)
    /\ scan' = Set(scan, t, NoScan)
    /\ \E v \in Copies(t) : held' = Set(held, t, v)
    /\ pc' = Set(pc, t, "idle")
    /\ op' = Set(op, t, "none")
    /\ volumeName' = Set(volumeName, t, "")
    /\ UNCHANGED <<impl, lvAttr, thinPool, tpNames, longName, driver, snapshots, files, config, bk, poolFormatted, poolSize, tpVolumes, mutex,
                   size, mountPath, volume, err, issued, faults, hist>>


\* ------------------------------------------------- Volume mount helpers
\* EnsureVolumeIsMounted without the test of the Mounted flag: it always mounts.
CallEnsureVolumeIsMountedAlways(t, p) ==
    /\ impl = "thinpool"
    /\ pc[t] = "idle"
    /\ held[t] # NoVolume
    /\ op' = Set(op, t, "mount")
    /\ mountPath' = Set(mountPath, t, p)
    /\ pc' = Set(pc, t, "mount")
    /\ UNCHANGED <<impl, lvAttr, thinPool, tpNames, longName, driver, snapshots, files, config, refreshing, bk, poolFormatted, poolSize, tpVolumes, scan, mutex,
                   volumeName, size, volume, held, err, issued, faults, hist>>

\* Volume.EnsureVolumeIsMounted: "if volume.Mounted { return nil }"
CallEnsureVolumeIsMounted(t, p) ==
    /\ impl = "thinpool"
    /\ pc[t] = "idle"
    /\ held[t] # NoVolume
    /\ op' = Set(op, t, "mount")
    /\ mountPath' = Set(mountPath, t, p)
    /\ IF held[t].Mounted
       THEN pc' = Set(pc, t, "vret") /\ err' = Set(err, t, "nil")
       ELSE pc' = Set(pc, t, "mount") /\ UNCHANGED err
    /\ UNCHANGED <<impl, lvAttr, thinPool, tpNames, longName, driver, snapshots, files, config, refreshing, bk, poolFormatted, poolSize, tpVolumes, scan, mutex,
                   volumeName, size, volume, held, issued, faults, hist>>

\* os.MkdirAll(path): there is no directory to make for the empty path.
CanMkdirAll(p) == p # ""

\* Volume.mountVolume: MkdirAll fails
MkdirAllFails(t) ==
    /\ pc[t] = "mount"
    /\ IF CanMkdirAll(mountPath[t])
       THEN faults < MaxFaults /\ faults' = faults + 1
       ELSE UNCHANGED faults
    /\ pc' = Set(pc, t, "vret")
    /\ err' = Set(err, t, "error creating mount point directory")
    /\ UNCHANGED <<impl, lvAttr, thinPool, tpNames, longName, driver, snapshots, files, config, refreshing, bk, poolFormatted, poolSize, tpVolumes, scan, mutex, op,
                   volumeName, size, mountPath, volume, held, issued, hist>>

\* Volume.mountVolume: mount <device> <mountPoint>
MountVolume(t) ==
    /\ pc[t] = "mount"
    /\ CanMkdirAll(mountPath[t])
    /\ LET dev == DeviceName(held[t])
           p == mountPath[t]
       IN \E k \in 1..2 : LET ok == Outcomes[k] IN
          /\ Outcome(ok, CanMount(bk, dev))
          /\ issued' = Set(issued, t, Append(issued[t], Command("mount", dev, 0, bk, ok)))
          /\ IF ok
             THEN /\ bk' = [bk EXCEPT ![dev].target = p]
                  /\ held' = Set(held, t, [held[t] EXCEPT !.Mounted = TRUE, !.Target = p])
                  /\ err' = Set(err, t, "nil")
             ELSE /\ err' = Set(err, t, "mount error")
                  /\ UNCHANGED <<bk, held>>
          /\ pc' = Set(pc, t, "vret")
    /\ UNCHANGED <<impl, lvAttr, thinPool, tpNames, longName, driver, snapshots, files, config, refreshing, poolFormatted, poolSize, tpVolumes, scan, mutex, op,
                   volumeName, size, mountPath, volume, hist>>

\* Volume.EnsureVolumeIsUnmounted: "if !volume.Mounted { return nil }"
CallEnsureVolumeIsUnmounted(t) ==
    /\ impl = "thinpool"
    /\ pc[t] = "idle"
    /\ held[t] # NoVolume
    /\ op' = Set(op, t, "unmount")
    /\ IF ~held[t].Mounted
       THEN pc' = Set(pc, t, "vret") /\ err' = Set(err, t, "nil")
       ELSE pc' = Set(pc, t, "umount") /\ UNCHANGED err
    /\ UNCHANGED <<impl, lvAttr, thinPool, tpNames, longName, driver, snapshots, files, config, refreshing, bk, poolFormatted, poolSize, tpVolumes, scan, mutex,
                   volumeName, size, mountPath, volume, held, issued, faults, hist>>

\* unmountVolume on a record that is the pool's own element, not a copy.
UnmountVolumeAliased(t) ==
    /\ pc[t] = "umount"
    /\ LET dev == DeviceName(held[t])
           cleared(v) == [v EXCEPT !.Mounted = FALSE, !.Target = ""]
       IN \E k \in 1..2 : LET ok == Outcomes[k] IN
          /\ Outcome(ok, CanUmount(bk, dev))
          /\ issued' = Set(issued, t, Append(issued[t], Command("umount", dev, 0, bk, ok)))
          /\ IF ok
             THEN /\ bk' = [bk EXCEPT ![dev].target = ""]
                  /\ held' = Set(held, t, cleared(held[t]))
                  /\ tpVolumes' = [i \in DOMAIN tpVolumes |->
                                     IF tpVolumes[i].LVName = held[t].LVName
                                     THEN cleared(tpVolumes[i]) ELSE tpVolumes[i]]
                  /\ err' = Set(err, t, "nil")
             ELSE /\ err' = Set(err, t, "umount error")
                  /\ UNCHANGED <<bk, held, tpVolumes>>
          /\ pc' = Set(pc, t, "vret")
    /\ UNCHANGED <<impl, lvAttr, thinPool, tpNames, longName, driver, snapshots, files, config, refreshing, poolFormatted, poolSize, scan, mutex, op,
                   volumeName, size, mountPath, volume, hist>>

\* Volume.unmountVolume: umount <device>
UnmountVolume(t) ==
    /\ pc[t] = "umount"
    /\ LET dev == DeviceName(held[t])
       IN \E k \in 1..2 : LET ok == Outcomes[k] IN
          /\ Outcome(ok, CanUmount(bk, dev))
          /\ issued' = Set(issued, t, Append(issued[t], Command("umount", dev, 0, bk, ok)))
          /\ IF ok
             THEN /\ bk' = [bk EXCEPT ![dev].target = ""]
                  /\ held' = Set(held, t, [held[t] EXCEPT !.Mounted = FALSE, !.Target = ""])
                  /\ err' = Set(err, t, "nil")
             ELSE /\ err' = Set(err, t, "umount error")
                  /\ UNCHANGED <<bk, held>>
          /\ pc' = Set(pc, t, "vret")
    /\ UNCHANGED <<impl, lvAttr, thinPool, tpNames, longName, driver, snapshots, files, config, refreshing, poolFormatted, poolSize, tpVolumes, scan, mutex, op,
                   volumeName, size, mountPath, volume, hist>>

\* Volume.UpdateMountStatus called on a held record
CallUpdateMountStatus(t) ==
    /\ impl = "thinpool"
    /\ pc[t] = "idle"
    /\ held[t] # NoVolume
    /\ \E k \in 1..2 : LET ok == Outcomes[k] IN
          /\ Outcome(ok, TRUE)
          /\ held' = Set(held, t, UpdateMountStatus(held[t], bk, ok))
          /\ err' = Set(err, t, IF ok THEN "nil" ELSE "findmnt error")
    /\ op' = Set(op, t, "status")
    /\ pc' = Set(pc, t, "vret")
    /\ UNCHANGED <<impl, lvAttr, thinPool, tpNames, longName, driver, snapshots, files, config, refreshing, bk, poolFormatted, poolSize, tpVolumes, scan, mutex,
                   volumeName, size, mountPath, volume, issued, hist>>

\* Volume.CreateSnapshot called on a held record: lvcreate --snapshot --name
\* snapshotName -L size <device>; the record it returns is the call's local
\* *Volume.
CreateSnapshot(t, snapshotName, s) ==
    /\ impl = "thinpool"
    /\ pc[t] = "idle"
    /\ held[t] # NoVolume
    /\ \E k \in 1..2 : LET ok == Outcomes[k] IN
          /\ Outcome(ok, CanCreate(bk, snapshotName, s))
          /\ issued' = Set(issued, t,
                Append(issued[t], Command("lvcreate", snapshotName, s, bk, ok)))
          /\ IF ok
             THEN /\ bk' = Created(bk, snapshotName, s)
                  /\ volume' = Set(volume, t,
                        [LVName |-> snapshotName, LVSize |-> s,
                         Mounted |-> FALSE, Target |-> ""])
                  /\ err' = Set(err, t, "nil")
             ELSE /\ err' = Set(err, t, "failed to create volume snapshot")
                  /\ UNCHANGED <<bk, volume>>
    /\ op' = Set(op, t, "snapshot")
    /\ pc' = Set(pc, t, "vret")
    /\ UNCHANGED <<impl, lvAttr, thinPool, tpNames, longName, driver, snapshots, files, config, refreshing, poolFormatted, poolSize, tpVolumes, scan, mutex,
                   volumeName, size, mountPath, held, hist>>

\* return of a call on a record
VolumeReturn(t) ==
    /\ pc[t] = "vret"
    /\ pc' = Set(pc, t, "idle")
    /\ op' = Set(op, t, "none")
    /\ volumeName' = Set(volumeName, t, "")
    /\ size' = Set(size, t, 0)
    /\ mountPath' = Set(mountPath, t, "")
    /\ volume' = Set(volume, t, NoVolume)
    /\ err' = Set(err, t, "none")
    /\ issued' = Set(issued, t, <<>>)
    /\ UNCHANGED <<impl, lvAttr, thinPool, tpNames, longName, driver, snapshots, files, config, refreshing, bk, poolFormatted, poolSize, tpVolumes, scan, mutex,
                   held, faults, hist>>

\* ------------------------------------------------------------ LoadConfig
\* config.LoadConfig as main calls it, on a secret file of SF and a
\* configuration file of CF: read and decode the secret file, then the
\* configuration file (an error of either is returned with what has been
\* decoded so far, and main ends the process with log.Fatalf), then replace
\* the references.
LoadConfig(SF, CF) ==
    /\ ~config.loaded
    /\ Running
    /\ \E sOk \in BOOLEAN, cOk \in BOOLEAN, sf \in SF, cf \in CF :
          /\ pc' = IF sOk /\ cOk THEN pc ELSE EndAll("fatal")
          /\ ~sOk => sf = <<>> /\ cf = <<>> /\ ~cOk
          /\ ~cOk => cf = <<>>
          /\ files' = [secretOk |-> sOk, secret |-> sf,
                       configOk |-> cOk, config |-> cf]
          /\ config' = IF sOk /\ cOk
                        THEN [loaded |-> TRUE, ok |-> TRUE,
                              ResticRepo |-> ResolveSecrets(cf, sf)]
                        ELSE [loaded |-> TRUE, ok |-> FALSE, ResticRepo |-> <<>>]
    /\ UNCHANGED <<impl, lvAttr, thinPool, tpNames, longName, driver, snapshots, refreshing, bk, poolFormatted,
                   poolSize, tpVolumes, scan, mutex, op, volumeName, size,
                   mountPath, volume, held, err, issued, faults, hist>>

\* ---------------------------------------------------------- node service
\* main after LoadConfig has succeeded: NewDriver with the configuration it
\* read; the repositories of the destinations hold whatever was backed up
\* to them.
NewDriver ==
    /\ ~driver.built
    /\ Running
    /\ config.loaded /\ config.ok
    /\ driver' = [built |-> TRUE, ResticRepo |-> config.ResticRepo]
    /\ snapshots' \in [Dests -> SUBSET Times]
    /\ UNCHANGED <<impl, lvAttr, thinPool, tpNames, longName, files, config, refreshing, bk, poolFormatted, poolSize,
                   tpVolumes, scan, mutex, pc, op, volumeName, size, mountPath, volume,
                   held, err, issued, faults, hist>>

\* A node request that runs a restore onto the volume whenever it begins.
BeginNodeCallRestoring(t, o, vid, tp) ==
    /\ driver.built
    /\ pc[t] = "idle"
    /\ op' = Set(op, t, o)
    /\ volumeName' = Set(volumeName, t, vid)
    /\ mountPath' = Set(mountPath, t, tp)
    /\ issued' = Set(issued, t, <<[cmd |-> "restore", dev |-> vid]>>)
    /\ UNCHANGED <<impl, lvAttr, thinPool, tpNames, longName, driver, snapshots, files, config, refreshing, bk, poolFormatted, poolSize,
                   tpVolumes, scan, mutex, size, volume, held, faults, hist>>

\* A node request begins: its fields are the call's arguments.
BeginNodeCall(t, o, vid, tp) ==
    /\ driver.built
    /\ pc[t] = "idle"
    /\ op' = Set(op, t, o)
    /\ volumeName' = Set(volumeName, t, vid)
    /\ mountPath' = Set(mountPath, t, tp)
    /\ issued' = Set(issued, t, <<>>)
    /\ UNCHANGED <<impl, lvAttr, thinPool, tpNames, longName, driver, snapshots, files, config, refreshing, bk, poolFormatted, poolSize,
                   tpVolumes, scan, mutex, size, volume, held, faults, hist>>

\* NodePublishVolume without the test of req.TargetPath.
NodePublishVolumeNoTargetCheck(t, vid, tp) ==
    /\ BeginNodeCall(t, "publish", vid, tp)
    /\ IF vid = ""
       THEN /\ err' = Set(err, t, "InvalidArgument")
            /\ pc' = Set(pc, t, "nret")
       ELSE IF driver.ResticRepo = <<>>
       THEN /\ err' = Set(err, t, "panic")
            /\ pc' = Set(pc, t, "panic")
       ELSE /\ err' = Set(err, t, "nil")
            /\ pc' = Set(pc, t, "nret")

\* Driver.NodePublishVolume: the two field checks, the log of
\* d.config.ResticRepo[0].Repository (an index out of range on an empty
\* list: the process panics), and the empty response.
NodePublishVolume(t, vid, tp) ==
    /\ BeginNodeCall(t, "publish", vid, tp)
    /\ IF vid = ""
       THEN /\ err' = Set(err, t, "InvalidArgument")
            /\ pc' = Set(pc, t, "nret")
       ELSE IF tp = ""
       THEN /\ err' = Set(err, t, "InvalidArgument")
            /\ pc' = Set(pc, t, "nret")
       ELSE IF driver.ResticRepo = <<>>
       THEN /\ err' = Set(err, t, "panic")
            /\ pc' = Set(pc, t, "panic")
       ELSE /\ err' = Set(err, t, "nil")
            /\ pc' = Set(pc, t, "nret")

\* Driver.NodeUnpublishVolume: the two field checks and the empty response.
NodeUnpublishVolume(t, vid, tp) ==
    /\ BeginNodeCall(t, "unpublish", vid, tp)
    /\ IF vid = ""
       THEN err' = Set(err, t, "InvalidArgument")
       ELSE IF tp = ""
       THEN err' = Set(err, t, "InvalidArgument")
       ELSE err' = Set(err, t, "nil")
    /\ pc' = Set(pc, t, "nret")

\* The response of a node request reaches the orchestrator.
NodeReturn(t) ==
    /\ pc[t] = "nret" /\ op[t] \in NodeOps
    /\ pc' = Set(pc, t, "idle")
    /\ op' = Set(op, t, "none")
    /\ volumeName' = Set(volumeName, t, "")
    /\ mountPath' = Set(mountPath, t, "")
    /\ err' = Set(err, t, "none")
    /\ issued' = Set(issued, t, <<>>)
    /\ UNCHANGED <<impl, lvAttr, thinPool, tpNames, longName, driver, snapshots, files, config, refreshing, bk, poolFormatted, poolSize,
                   tpVolumes, scan, mutex, size, volume, held, faults, hist>>

\* ----------------------------------------------------------------- Next
\* The steps of the pool's two locked calls but for their backend commands,
\* with requested sizes SS.
PoolStep(t, SS) ==
    \/ \E n \in CallNames, s \in SS : CallEnsureVolumeIsPresent(t, n, s)
    \/ \E n \in CallNames : CallEnsureVolumeIsAbsent(t, n)
    \/ Lock(t)
    \/ op[t] \in PoolOps /\ GetVolumeLoop(t)
    \/ PresentCheck(t)
    \/ RefreshAfter(t)
    \/ AbsentCheck(t)
    \/ Return(t)

\* The backend commands of CreateThinVolume / createVolume, Volume.Extend /
\* extendVolume and Volume.Remove / removeVolume, whoever called them.
CommandStep(t) ==
    \/ LvCreate(t)
    \/ Mkfs(t)
    \/ Extend(t)
    \/ Remove(t)

\* An access of t to tp.Volumes overlaps the store of it by the
\* refreshVolumes of u.
OverlapStep(t, u) ==
    \/ TornStore(t, u)
    \/ TornIndex(t, u)
    \/ TornLoad(t, u)

\* NewThinPool on a path of LN.
ConstructStep(t, LN) ==
    \/ \E ln \in LN : NewThinPool(t, ln)
    \/ NewThinPoolBuilt(t)
    \/ NewThinPoolReturn(t)

\* NewThinPool as a process that builds its pool once calls it: until it
\* has a pool.
BuildStep(t, LN) ==
    \/ thinPool = "nil" /\ \E ln \in LN : NewThinPool(t, ln)
    \/ NewThinPoolBuilt(t)
    \/ NewThinPoolReturn(t)

\* GetVolume and the mount methods of the Volume it returns, with mount
\* paths PS.
VolumeStep(t, PS) ==
    \/ \E n \in CallNames : GetVolume(t, n)
    \/ op[t] = "getvolume" /\ GetVolumeLoop(t)
    \/ GetVolumeReturn(t)
    \/ \E p \in PS : CallEnsureVolumeIsMounted(t, p)
    \/ MkdirAllFails(t)
    \/ MountVolume(t)
    \/ CallEnsureVolumeIsUnmounted(t)
    \/ UnmountVolume(t)
    \/ CallUpdateMountStatus(t)
    \/ VolumeReturn(t)

\* The calls that change the backend from outside the pool's lock, with
\* sizes SS: CreateThinVolume, and Volume.Extend, Volume.Remove and
\* Volume.CreateSnapshot on a record the caller holds.  The commands of the
\* first three are the steps of CommandStep.
DirectStep(t, SS) ==
    \/ \E n \in CallNames, s \in SS : CallCreateThinVolume(t, n, s)
    \/ \E s \in SS : CallExtend(t, s)
    \/ CallRemove(t)
    \/ \E n \in SnapshotNames, s \in SnapshotSizes : CreateSnapshot(t, n, s)

\* The backend of the specifications that are about the pool's callers: its
\* lvs pads with spaces only.
InitPool == Init /\ lvAttr \in PlainLvAttrs

\* NewThinPool on any of the paths and over any output of lvs, and GetVolume
\* and the mount methods on the pool it built.
NextConstruct ==
    \/ ConstructStep("t1", LongNames)
    \/ RefreshStep("t1")
    \/ VolumeStep("t1", ConcPaths)

SpecConstruct == Init /\ [][NextConstruct]_vars

\* One caller: the calls of the pool's user follow one another, as in the
\* test.
Next ==
    \/ ConstructStep("t1", TestLongNames)
    \/ RefreshStep("t1")
    \/ PoolStep("t1", Sizes)
    \/ CommandStep("t1")
    \/ VolumeStep("t1", TargetPaths)
    \/ DirectStep("t1", DirectSizes)

Spec == InitPool /\ [][Next]_vars

\* Two callers of EnsureVolumeIsPresent / EnsureVolumeIsAbsent.
NextLock ==
    \/ ConstructStep("t1", ConcLongNames)
    \/ \E t \in Threads : RefreshStep(t)
    \/ \E t \in Threads : PoolStep(t, Sizes)
    \/ \E t \in Threads : CommandStep(t)

SpecLock == InitPool /\ [][NextLock]_vars

\* The backend of the specifications with two callers of "thinpool": one
\* volume, absent or as the test's.
InitConc ==
    /\ Init /\ impl = "thinpool" /\ lvAttr = ThinPoolAttr
    /\ \A n \in CallNames : bk[n] \in {Absent, InitVolume}
    /\ \A n \in Names \ CallNames : bk[n] = Absent

\* Two callers: the first one builds pools and makes its locked calls;
\* the second one uses GetVolume and the mount methods of the Volume it
\* returns: it reads and writes the collection and mounts from outside the
\* pool's lock.
NextConc ==
    \/ ConstructStep("t1", ConcLongNames)
    \/ \E t \in Threads : RefreshStep(t)
    \/ PoolStep("t1", ConcSizes)
    \/ CommandStep("t1")
    \/ VolumeStep("t2", ConcPaths)
    \/ \E t \in Threads : \E u \in Threads \ {t} : OverlapStep(t, u)

SpecConc == InitConc /\ [][NextConc]_vars

\* Two users of the pool's records: both of them call GetVolume and the
\* mount methods of the Volume it returns, and the second one also
\* CreateThinVolume and Volume.Remove; neither makes the pool's locked
\* calls.
NextCopies ==
    \/ BuildStep("t1", ConcLongNames)
    \/ \E t \in Threads : RefreshStep(t)
    \/ \E t \in Threads : VolumeStep(t, ConcPaths)
    \/ \E n \in CallNames, s \in DirectSizes : CallCreateThinVolume("t2", n, s)
    \/ LvCreate("t2")
    \/ Mkfs("t2")
    \/ CallRemove("t2")
    \/ Remove("t2")
    \/ \E t \in Threads : \E u \in Threads \ {t} : OverlapStep(t, u)

SpecCopies == InitConc /\ [][NextCopies]_vars

\* The two callers of SpecLock ("thinpool") with the scheduling the runtime gives them: a
\* backend command that was started returns, a call that can take its next
\* step takes it, and a caller blocked in Lock is handed the mutex once it
\* is free (sync.Mutex hands over to a starving waiter).
Progress(t) ==
    \/ RefreshStep(t)
    \/ GetVolumeLoop(t)
    \/ PresentCheck(t) \/ LvCreate(t) \/ Mkfs(t) \/ Extend(t)
    \/ RefreshAfter(t) \/ AbsentCheck(t) \/ Remove(t) \/ Return(t)

Fairness == \A t \in Threads : SF_vars(Lock(t)) /\ WF_vars(Progress(t))

SpecLive == InitConc /\ [][NextLock]_vars /\ Fairness

\* The node service's requests, with mount paths PS.
NodeStep(t, PS) ==
    \/ \E vid \in VolumeIds, tp \in PS : NodePublishVolume(t, vid, tp)
    \/ \E vid \in VolumeIds, tp \in PS : NodeUnpublishVolume(t, vid, tp)
    \/ NodeReturn(t)

\* The node plugin's process: main loads the configuration, the driver is
\* built with it and serves the orchestrator's requests, one after another,
\* on a host whose volumes are mounted and unmounted through the pool's
\* records.
NextNode ==
    \/ LoadConfig(NodeSecretFiles, NodeConfigFiles)
    \/ ConstructStep("t1", ConcLongNames)
    \/ NewDriver
    \/ RefreshStep("t1")
    \/ VolumeStep("t1", ConcPaths)
    \/ NodeStep("t1", TargetPaths)

SpecNode == InitPool /\ [][NextNode]_vars

\* main's first step alone: LoadConfig on the files it is given.
NextLoad == LoadConfig(SecretFiles, ConfigFiles)

SpecLoad == Init /\ [][NextLoad]_vars


\* ================================================================ claims
\* The positions at which a call of EnsureVolumeIsPresent /
\* EnsureVolumeIsAbsent holds (or must hold) the pool's lock.
Critical == {"get", "create", "mkfs", "extend", "remove", "refresh", "ret"}
InCall(t) == op[t] \in PoolOps /\ pc[t] \in Critical

\* The commands of cmd c that the call in progress of t has issued.
Issued(t, c) == {i \in 1..Len(issued[t]) : issued[t][i].cmd = c}

PoolMutations == {"lvcreate", "mkfs", "lvextend", "lvremove"}

\* C1: EnsureVolumeIsPresent(name, size) for a name that is in the pool with
\* size S >= size returns success and issues no mutating backend command.
\* (The claim adds that the pool's record is left unchanged; what is stated
\* here is the part of it about the result and the commands.)  At the
\* existence check of such a call the call must go straight to its
\* successful return.
C1_Idempotent ==
    [][\A t \in Threads :
          ( /\ pc[t] = "get" /\ op[t] = "present"
            /\ pc'[t] \notin {"get"} \cup Ended
            /\ bk[volumeName[t]].exists
            /\ size[t] <= bk[volumeName[t]].size )
          => ( /\ pc'[t] = "ret"
               /\ err'[t] = "nil"
               /\ \A c \in PoolMutations : Issued(t, c) = {} )]_vars

\* C2: for an existing volume, a call that extends issues exactly one
\* lvextend, for that volume and for a size above its current size, and when
\* the call returns success the pool's record has the requested size.
C2_ExtendToRequested ==
    \A t \in Threads :
        ( /\ impl = "thinpool"
          /\ pc[t] = "ret" /\ op[t] = "present"
          /\ volume[t] # NoVolume )
        => /\ Cardinality(Issued(t, "lvextend")) <= 1
           /\ \A i \in Issued(t, "lvextend") :
                 /\ issued[t][i].dev = volumeName[t]
                 /\ issued[t][i].size > issued[t][i].cur
           /\ (err[t] = "nil" /\ Issued(t, "lvextend") # {})
                 => FindVolume(tpVolumes, volumeName[t]).LVSize = size[t]

\* C3: when the name is not in the pool, a successful
\* EnsureVolumeIsPresent(name, minSize) has created the volume at minSize,
\* has made the filesystem on that volume's device, and leaves exactly one
\* record for name, of size minSize, in the collection.
C3_CreateAndFormat ==
    \A t \in Threads :
        ( /\ pc[t] = "ret" /\ op[t] = "present" /\ err[t] = "nil"
          /\ Issued(t, "lvcreate") # {} )
        => /\ \A i \in Issued(t, "mkfs") : issued[t][i].dev = volumeName[t]
           /\ bk[volumeName[t]].exists
           /\ bk[volumeName[t]].size = size[t]
           /\ bk[volumeName[t]].formatted
           /\ Cardinality({i \in 1..Len(tpVolumes) :
                             tpVolumes[i].LVName = volumeName[t]}) = 1
           /\ FindVolume(tpVolumes, volumeName[t]).LVSize = size[t]

\* C4: EnsureVolumeIsAbsent(name) for a name that is not in the pool issues
\* no removal command and returns success, however often it is repeated.
\* (The claim adds that the collection is left unchanged; what is stated
\* here is the part of it about the result and the commands.)
C4_AbsentIdempotent ==
    [][\A t \in Threads :
          ( /\ pc[t] = "get" /\ op[t] = "absent"
            /\ pc'[t] \notin {"get"} \cup Ended
            /\ ~bk[volumeName[t]].exists )
          => ( pc'[t] = "ret" /\ err'[t] = "nil" )]_vars

\* C5: when EnsureVolumeIsAbsent(name) found the volume and returns success,
\* the volume is gone and the pool's collection has no record called name.
C5_RemovedOnSuccess ==
    \A t \in Threads :
        ( /\ pc[t] = "ret" /\ op[t] = "absent" /\ err[t] = "nil"
          /\ volume[t] # NoVolume )
        => /\ ~bk[volumeName[t]].exists
           /\ FindVolume(tpVolumes, volumeName[t]) = NoVolume

\* C6: no lvextend is ever issued by EnsureVolumeIsPresent on a volume with
\* a size below the size the volume has at that moment.
C6_NeverShrinks ==
    \A t \in Threads : \A i \in Issued(t, "lvextend") :
        (op[t] \in PoolOps /\ issued[t][i].dev \in Names /\ issued[t][i].existed)
            => issued[t][i].size >= issued[t][i].cur

\* C7: the commands the pool's calls issue respect the backend's state: no
\* lvcreate for a volume that exists, no lvremove and no lvextend for a
\* volume that does not exist, and mkfs only directly after the lvcreate
\* that made the (then unformatted) volume of the same call.
C7_CommandSafety ==
    \A t \in Threads : \A i \in 1..Len(issued[t]) :
        LET c == issued[t][i]
        IN op[t] \in PoolOps =>
           /\ c.cmd = "lvcreate" => ~c.existed
           /\ c.cmd = "lvremove" => c.existed
           /\ (c.cmd = "lvextend" /\ c.dev \in Names) => c.existed
           /\ c.cmd = "mkfs" => (i > 1 /\ issued[t][i - 1].cmd = "lvcreate")

\* C10: when EnsureVolumeIsMounted(path) returns success the record says
\* mounted at path and the device is mounted at path; when
\* EnsureVolumeIsUnmounted() returns success the record says not mounted
\* and the device is mounted nowhere.
C10_MountPostcondition ==
    \A t \in Threads :
        (pc[t] = "vret" /\ err[t] = "nil" /\ held[t].LVName \in Names)
        => /\ op[t] = "mount"
                => /\ held[t].Mounted
                   /\ held[t].Target = mountPath[t]
                   /\ bk[held[t].LVName].target = mountPath[t]
           /\ op[t] = "unmount"
                => /\ ~held[t].Mounted
                   /\ held[t].Target = ""
                   /\ bk[held[t].LVName].target = ""

\* C8 (as claimed): two concurrent EnsureVolumeIsPresent calls for the same
\* absent name issue exactly one create; of two such calls, not both issue
\* lvcreate.
C8_ExactlyOneCreate ==
    \A t \in Threads, u \in Threads :
        (overlaps[u] = t /\ created[t]) => ~created[u]

\* C8: the calls EnsureVolumeIsPresent / EnsureVolumeIsAbsent of one pool
\* never overlap: a call is between its existence check and its return only
\* while it holds the pool's lock, so at most one call is there at a time
\* and every command of a call is issued under the lock.
C8_MutualExclusion ==
    /\ \A t \in Threads : InCall(t) => mutex = t
    /\ \A t \in Threads :
          (op[t] \in PoolOps /\ issued[t] # <<>>) => mutex = t

\* two calls for the same name: one has issued its lvcreate under the lock
\* while the other one waits for the lock
C8_Witness ==
    \E t \in Threads, u \in Threads :
        /\ t # u
        /\ InCall(t) /\ Issued(t, "lvcreate") # {}
        /\ pc[u] = "lock" /\ op[u] = "present"
        /\ volumeName[u] = volumeName[t]

\* C9: a mount or unmount of a volume never runs while another thread is
\* inside EnsureVolumeIsPresent / EnsureVolumeIsAbsent for that volume's
\* name or is itself mounting or unmounting that volume.
C9_MountUnderLock ==
    \A t \in Threads, u \in Threads :
        (t # u /\ pc[t] \in {"mount", "umount"})
        => /\ ~(InCall(u) /\ volumeName[u] = held[t].LVName)
           /\ ~(pc[u] \in {"mount", "umount"}
                  /\ held[u].LVName = held[t].LVName)

\* C11: EnsureVolumeIsMounted(path) on a Volume that is mounted at path, and
\* EnsureVolumeIsUnmounted() on a Volume that is not mounted, return success
\* at once: no mount or umount command is issued and Mounted / Target (and
\* the backend) are left as they are.
C11_MountHelpersIdempotent ==
    [][\A t \in Threads :
          ( /\ pc[t] = "idle" /\ held[t] # NoVolume
            /\ \/ /\ op'[t] = "mount"
                  /\ held[t].Mounted /\ held[t].Target = mountPath'[t]
               \/ /\ op'[t] = "unmount"
                  /\ ~held[t].Mounted )
          => ( /\ pc'[t] = "vret" /\ err'[t] = "nil"
               /\ issued'[t] = <<>>
               /\ held'[t] = held[t]
               /\ bk' = bk )]_vars

\* a no-op return has happened: EnsureVolumeIsMounted returned success
\* without a command on a volume mounted at the requested path, or
\* EnsureVolumeIsUnmounted did on one that is not mounted
C11_Witness ==
    \E t \in Threads :
        /\ pc[t] = "vret" /\ err[t] = "nil" /\ issued[t] = <<>>
        /\ held[t].LVName \in Names
        /\ \/ /\ op[t] = "mount" /\ held[t].Mounted
              /\ held[t].Target = mountPath[t]
              /\ bk[held[t].LVName].target = mountPath[t]
           \/ /\ op[t] = "unmount" /\ ~held[t].Mounted
              /\ bk[held[t].LVName].target = ""

\* C12: the mount helpers act on the device's live mount state: a
\* successful EnsureVolumeIsMounted leaves the device mounted and a
\* successful EnsureVolumeIsUnmounted leaves it mounted nowhere, whatever
\* the record's Mounted flag said when the call began.  It is stated for
\* the runs in which no command has failed.
C12_LiveMountStatus ==
    \A t \in Threads :
        ( /\ faults = 0
          /\ pc[t] = "vret" /\ err[t] = "nil"
          /\ held[t].LVName \in Names /\ bk[held[t].LVName].exists )
        => /\ op[t] = "mount" => bk[held[t].LVName].target # ""
           /\ op[t] = "unmount" => bk[held[t].LVName].target = ""

\* The error a call returns when command c has failed (the fmt.Errorf of
\* CreateThinVolume, Volume.Extend and Volume.Remove).
FailureOf(c) ==
    CASE c = "lvcreate" -> "failed to create volume"
      [] c = "mkfs"     -> "failed to create filesystem"
      [] c = "lvextend" -> "failed to extend volume"
      [] c = "lvremove" -> "failed to remove volume"
      [] OTHER          -> "nil"

\* C14: in a call of EnsureVolumeIsPresent / EnsureVolumeIsAbsent each of
\* lvcreate, mkfs, lvextend and lvremove is issued at most once, and a
\* command that failed is the last command of the call, which returns the
\* error of that command.
C14_FailureSurfaced ==
    \A t \in Threads :
        op[t] \in PoolOps
        => /\ \A c \in PoolMutations : Cardinality(Issued(t, c)) <= 1
           /\ \A i \in 1..Len(issued[t]) :
                 ~issued[t][i].ok
                 => /\ i = Len(issued[t])
                    /\ pc[t] = "ret"
                    /\ err[t] = FailureOf(issued[t][i].cmd)
                    /\ err[t] # "nil"

\* a call is returning the error of its failed mkfs.xfs, issued after a
\* successful lvcreate
C14_Witness ==
    \E t \in Threads :
        /\ pc[t] = "ret" /\ op[t] = "present"
        /\ Len(issued[t]) = 2
        /\ issued[t][1].cmd = "lvcreate" /\ issued[t][1].ok
        /\ issued[t][2].cmd = "mkfs" /\ ~issued[t][2].ok
        /\ err[t] = "failed to create filesystem"

\* The record GetVolume is to return for name n when the backend is b.
CurrentRecord(b, n) ==
    IF b[n].exists
    THEN [LVName |-> n, LVSize |-> b[n].size,
          Mounted |-> (b[n].target # ""), Target |-> b[n].target]
    ELSE NoVolume

\* C13: GetVolume(name) returns nil exactly when the backend's pool has no
\* volume called name, and otherwise a record with the backend's size and
\* the device's live mount state; no step of the call changes the backend.
C13_GetVolumeCurrent ==
    [][\A t \in Threads :
          /\ (pc[t] = "getvolume" /\ pc'[t] = "idle")
                => held'[t] = CurrentRecord(bk, volumeName[t])
          /\ (pc[t] = "getvolume" /\ refreshing'[t] # refreshing[t])
                => bk' = bk /\ issued' = issued]_vars

\* The backend reports a thin pool: an lv_attr that begins with "t".
ReportsThinPool(attr) == attr \in {ThinPoolAttr, ThinPoolAttrCr}

\* The backend's list of the pool's volumes as a collection: the rows of
\* lvs and ("thinpool" only) the mount status of each; fm is the set of
\* names whose mount status is in it.
RefreshedVolumes(b, fm, im) ==
    LET rows == LvsRows(b)
    IN  IF im = "thinpool"
        THEN [i \in 1..Len(rows) |->
                 UpdateMountStatus(rows[i], b, rows[i].LVName \in fm)]
        ELSE rows

\* C15: NewThinPool returns an error and no pool when lvs does not report a
\* thin pool at the path (no such volume, or an lv_attr that is not a thin
\* pool's), and the pool it returns otherwise has a collection equal to the
\* backend's list of the pool's volumes.
C15_Construction ==
    [][\A t \in Threads :
          (pc[t] # "newret" /\ pc'[t] = "newret")
          => /\ ~ReportsThinPool(LvAttrOf(lvAttr, longName'[t]))
                   => err'[t] # "nil" /\ thinPool' = thinPool
             /\ (err'[t] = "nil" /\ thinPool = "nil")
                   => tpVolumes' = RefreshedVolumes(bk, Names, impl)]_vars

\* A node request of thread t has returned success.
NodeSucceeded(t, o) == pc[t] = "nret" /\ op[t] = o /\ err[t] = "nil"

\* The backup calls among the commands a thread's request has issued.
BackupCalls(t) == {i \in DOMAIN issued[t] : issued[t][i].cmd = "restic"}

\* C16: a publish or unpublish request with an empty volume identifier or an
\* empty target path returns InvalidArgument at once: it issues no command
\* and changes neither the backend, the pool's records nor the driver.
C16_RequestValidation ==
    [][\A t \in Threads :
         (/\ pc[t] = "idle"
          /\ op'[t] \in NodeOps
          /\ volumeName'[t] = "" \/ mountPath'[t] = "")
            => /\ pc'[t] = "nret"
               /\ err'[t] = "InvalidArgument"
               /\ issued'[t] = <<>>
               /\ UNCHANGED <<bk, poolFormatted, poolSize, tpVolumes, held,
                              volume, mutex, driver, thinPool, tpNames>>]_vars

\* An unpublish request without a target path, for a mounted volume, has
\* been refused.
C16_Witness ==
    /\ pc["t1"] = "nret" /\ op["t1"] = "unpublish"
    /\ volumeName["t1"] = "a" /\ mountPath["t1"] = ""
    /\ err["t1"] = "InvalidArgument"
    /\ bk["a"].target # ""

\* C17: when a publish request with a volume identifier and a target path
\* returns success, the named volume exists in the pool and is mounted at
\* that target path.
C17_PublishEffect ==
    \A t \in Threads :
       (NodeSucceeded(t, "publish") /\ volumeName[t] \in Names)
          => /\ bk[volumeName[t]].exists
             /\ bk[volumeName[t]].target = mountPath[t]

\* C18: an unpublish operation that succeeded with N >= 1 destinations made
\* N backup calls, and all of them carry one and the same timestamp.
C18_OneTimestamp ==
    \A t \in Threads :
       (NodeSucceeded(t, "unpublish") /\ driver.ResticRepo # <<>>)
          => /\ Cardinality(BackupCalls(t)) = Len(driver.ResticRepo)
             /\ Cardinality({issued[t][i].time : i \in BackupCalls(t)}) = 1

\* C19: an unpublish operation that has returned has started exactly one
\* backup task for each configured destination.
C19_OneTaskPerDestination ==
    \A t \in Threads :
       NodeSucceeded(t, "unpublish")
          => \A d \in DOMAIN driver.ResticRepo :
                Cardinality({i \in BackupCalls(t) :
                               issued[t][i].dev = driver.ResticRepo[d].Repository}) = 1

\* C20: when an unpublish operation has returned success, the volume it
\* names is mounted nowhere.
C20_UnpublishReleases ==
    \A t \in Threads :
       (NodeSucceeded(t, "unpublish") /\ volumeName[t] \in Names)
          => bk[volumeName[t]].target = ""

\* The snapshots the configured destinations can answer with: the index of
\* the destination in the configuration and the snapshot's time.
Candidates ==
    {c \in (DOMAIN driver.ResticRepo) \X Times :
        c[2] \in snapshots[driver.ResticRepo[c[1]].Repository]}

Distance(a, b) == IF a > b THEN a - b ELSE b - a

\* Candidate c is the selector's choice for target time T: no candidate is
\* nearer to T, and none as near comes from an earlier destination.
IsNearest(c, T) ==
    /\ c \in Candidates
    /\ \A o \in Candidates :
          /\ Distance(c[2], T) <= Distance(o[2], T)
          /\ Distance(c[2], T) = Distance(o[2], T) => c[1] <= o[1]

\* A publish request with both fields begins, for volume n.
PublishBegins(t, n) ==
    /\ pc[t] = "idle" /\ op'[t] = "publish"
    /\ volumeName'[t] = n /\ mountPath'[t] # ""

\* C22: a successful publish of a volume the pool did not have, when some
\* destination holds a snapshot, restores the snapshot nearest to the
\* target time, the earlier configured destination winning a tie.
C22_NearestSnapshot ==
    [][\A t \in Threads, n \in Names :
         (/\ PublishBegins(t, n)
          /\ ~bk[n].exists /\ Candidates # {}
          /\ err'[t] = "nil")
            => \E T \in Times, i \in DOMAIN issued'[t] :
                  /\ issued'[t][i].cmd = "restore"
                  /\ IsNearest(issued'[t][i].snapshot, T)]_vars

\* C23: a publish of a volume the pool did not have, when no configured
\* destination holds a snapshot, runs no restore, mounts the volume at the
\* target path and succeeds.
C23_NoSnapshotNoError ==
    [][\A t \in Threads, n \in Names :
         (/\ PublishBegins(t, n)
          /\ ~bk[n].exists
          /\ driver.ResticRepo # <<>> /\ Candidates = {})
            => /\ err'[t] = "nil"
               /\ \A i \in DOMAIN issued'[t] : issued'[t][i].cmd # "restore"
               /\ bk'[n].exists
               /\ bk'[n].target = mountPath'[t]]_vars

\* C24: a publish of a volume that already exists queries no destination,
\* runs no restore and leaves the volume as the backend had it.
C24_SeedOnlyOnCreate ==
    [][\A t \in Threads, n \in Names :
         (PublishBegins(t, n) /\ bk[n].exists)
            => /\ \A i \in DOMAIN issued'[t] :
                     issued'[t][i].cmd \notin {"snapshots", "restore"}
               /\ bk'[n] = bk[n]]_vars

\* A formatted volume has been published again while a configured
\* destination holds a snapshot.
C24_Witness ==
    /\ NodeSucceeded("t1", "publish")
    /\ volumeName["t1"] = "a"
    /\ bk["a"].exists /\ bk["a"].formatted
    /\ Candidates # {}

\* The names of the commands a request has issued, in order.
RECURSIVE IsSubSeq(_, _)
IsSubSeq(a, b) ==
    IF a = <<>> THEN TRUE
    ELSE IF b = <<>> THEN FALSE
    ELSE IF Head(a) = Head(b) THEN IsSubSeq(Tail(a), Tail(b))
    ELSE IsSubSeq(a, Tail(b))

\* C25: a successful publish of a volume the pool did not have, when some
\* destination holds a snapshot, has run the restore sequence in order
\* (mount the volume, mount the snapshot, copy, unmount both) and leaves
\* nothing mounted but the volume at the target path.
C25_RestoreSequence ==
    [][\A t \in Threads, n \in Names :
         (/\ PublishBegins(t, n)
          /\ ~bk[n].exists /\ Candidates # {}
          /\ err'[t] = "nil")
            => /\ IsSubSeq(<<"mount", "restic mount", "rsync", "umount", "umount">>,
                           [i \in DOMAIN issued'[t] |-> issued'[t][i].cmd])
               /\ bk'[n].target = mountPath'[t]]_vars

\* The collection vols has exactly the backend's volumes, with their sizes.
MatchesBackend(vols, b) ==
    /\ \A n \in Names :
          b[n].exists <=> \E i \in DOMAIN vols : vols[i].LVName = n
    /\ \A i \in DOMAIN vols :
          /\ vols[i].LVName \in Names
          /\ vols[i].LVSize = b[vols[i].LVName].size
          /\ \A j \in DOMAIN vols : vols[j].LVName = vols[i].LVName => j = i

\* C26: when EnsureVolumeIsPresent / EnsureVolumeIsAbsent is about to return
\* success after a successful create, extend or remove, and still holds the
\* lock, the pool's collection equals the backend's volume list.
C26_RefreshAfterMutation ==
    \A t \in Threads :
       (/\ pc[t] = "ret" /\ op[t] \in PoolOps /\ err[t] = "nil"
        /\ \E i \in DOMAIN issued[t] :
              /\ issued[t][i].cmd \in {"lvcreate", "lvextend", "lvremove"}
              /\ issued[t][i].ok)
          => MatchesBackend(tpVolumes, bk)

\* C27: after construction, every step that changes the pool's collection
\* is a step of the refreshVolumes of the thread that holds the pool's lock.
C27_WrittenUnderLock ==
    [][(thinPool = "pool" /\ tpVolumes' # tpVolumes)
          => /\ mutex \in Threads
             /\ <<refreshing'[mutex].stage, refreshing'[mutex].i>>
                   # <<refreshing[mutex].stage, refreshing[mutex].i>>]_vars

\* The flag and the target of record v agree.
Consistent(v) == v.Mounted <=> v.Target # ""

\* UpdateMountStatus is between its two stores into element i of the
\* pool's collection (own = FALSE) or of the Volumes of the pool that thread
\* t is building (own = TRUE).
MidStore(t, i, own) ==
    /\ refreshing[t].stage = "target" /\ refreshing[t].i = i
    /\ refreshing[t].live
    /\ Building(t) = own

\* Every Volume record there is, but for an element UpdateMountStatus is in
\* the middle of writing: the pool's, the ones a refreshVolumes has decoded,
\* the locals of the calls and the ones handed out by GetVolume.
Records ==
    {tpVolumes[i] : i \in {j \in DOMAIN tpVolumes :
                              \A t \in Threads : ~MidStore(t, j, FALSE)}}
       \cup UNION {{refreshing[t].result[i] :
                       i \in {j \in DOMAIN refreshing[t].result : ~MidStore(t, j, TRUE)}} :
                      t \in Threads}
       \cup {volume[t] : t \in Threads} \cup {held[t] : t \in Threads}

\* C28: in every state every Volume record (but one that UpdateMountStatus
\* is in the middle of writing) has Mounted = false exactly when its Target
\* is empty, and a successful mount, unmount or mount-status refresh leaves
\* the record with the outcome of that call: mounted at the path given, not
\* mounted, or the status the query found.
C28_FlagMatchesTarget ==
    /\ [](\A v \in Records : Consistent(v))
    /\ [][\A t \in Threads :
            /\ (pc[t] = "mount" /\ pc'[t] = "vret" /\ err'[t] = "nil")
                  => held'[t].Mounted /\ held'[t].Target = mountPath[t]
            /\ (pc[t] = "umount" /\ pc'[t] = "vret" /\ err'[t] = "nil")
                  => ~held'[t].Mounted /\ held'[t].Target = ""
            /\ (pc[t] = "idle" /\ op'[t] = "status" /\ err'[t] = "nil"
                    /\ held[t].LVName \in Names)
                  => /\ held'[t].Target = bk[held[t].LVName].target
                     /\ held'[t].Mounted = (bk[held[t].LVName].target # "")]_vars

\* C29: UpdateMountStatus returns success with Mounted = false and an empty
\* Target when the query finds the device not mounted, and returns an error
\* with the record as it was when the query itself fails; a mount or
\* unmount command that fails returns an error and leaves the record as it
\* was.
C29_QueryFailureDistinct ==
    [][\A t \in Threads :
         /\ (pc[t] = "idle" /\ op'[t] = "status" /\ held[t].LVName \in Names)
               => /\ (err'[t] = "nil" /\ bk[held[t].LVName].target = "")
                        => ~held'[t].Mounted /\ held'[t].Target = ""
                  /\ err'[t] # "nil" => held'[t] = held[t]
         /\ (pc[t] \in {"mount", "umount"} /\ pc'[t] = "vret" /\ err'[t] # "nil")
               => held'[t] = held[t] /\ bk' = bk]_vars

\* The query failed for a record that says mounted: the call has returned an
\* error and the record still says mounted.
C29_Witness ==
    /\ pc["t1"] = "vret" /\ op["t1"] = "status"
    /\ err["t1"] = "findmnt error"
    /\ held["t1"].Mounted /\ held["t1"].Target = "/mnt/x"

\* C30: a step of a method of a Volume that GetVolume returned (mount,
\* unmount, mount-status refresh) changes that caller's record only: the
\* pool's collection and the records other callers hold stay as they were.
C30_CopiesDoNotAlias ==
    [][\A t \in Threads :
         (\/ pc[t] \in {"mount", "umount"} /\ pc'[t] = "vret"
          \/ pc[t] = "idle" /\ op'[t] \in VolumeOps)
            => /\ tpVolumes' = tpVolumes
               /\ \A u \in Threads \ {t} : held'[u] = held[u]]_vars

\* Two callers hold records of volume a; one has unmounted its own after the
\* pool's collection and the other's record had seen the volume mounted, and
\* both of those still say mounted.
C30_Witness ==
    /\ held["t1"].LVName = "a" /\ held["t2"].LVName = "a"
    /\ pc["t1"] = "vret" /\ op["t1"] = "unmount" /\ err["t1"] = "nil"
    /\ Issued("t1", "umount") # {}
    /\ ~held["t1"].Mounted
    /\ held["t2"].Mounted
    /\ tpVolumes # <<>> /\ tpVolumes[1].Mounted

\* C31: after LoadConfig has returned success, every environment value that
\* the configuration file wrote as a reference to the secret store is the
\* referenced secret's value, and every other value is as the file had it.
C31_SecretsResolved ==
    (config.loaded /\ config.ok)
       => \A i \in DOMAIN files.config, key \in EnvKeys :
             LET written == files.config[i].Environment[key]
                 handed == config.ResticRepo[i].Environment[key]
             IN  IF HasPrefix(written, SecretPrefix)
                 THEN /\ SecretKey(written) \in DOMAIN files.secret
                      /\ handed = files.secret[SecretKey(written)]
                 ELSE handed = written

\* C32: whenever EnsureVolumeIsPresent(name, size) of the pool is about to
\* return success, the backend has a volume called name of at least that
\* size, whatever the pool's collection says.
C32_SuccessMeansPresent ==
    \A t \in Threads :
       (/\ impl = "thinpool"
        /\ pc[t] = "ret" /\ op[t] = "present" /\ err[t] = "nil")
          => /\ bk[volumeName[t]].exists
             /\ bk[volumeName[t]].size >= size[t]

\* C33: whenever EnsureVolumeIsPresent is about to return success, the
\* volume it names has a filesystem.
C33_PresentMeansFormatted ==
    \A t \in Threads :
       (pc[t] = "ret" /\ op[t] = "present" /\ err[t] = "nil"
          /\ bk[volumeName[t]].exists)
          => bk[volumeName[t]].formatted

\* C34: the create, format, extend and remove commands of an
\* EnsureVolumeIsPresent / EnsureVolumeIsAbsent call are all issued against
\* the volume the call names; no step of the call changes another volume,
\* and the pool device itself is never formatted or resized.
C34_EnsureFrame ==
    [][\A t \in Threads :
             /\ (op[t] \in PoolOps /\ pc'[t] # pc[t])
                   => /\ poolFormatted' = poolFormatted
                      /\ poolSize' = poolSize
                      /\ \A n \in Names \ {volumeName[t]} : bk'[n] = bk[n]
             /\ op'[t] \in PoolOps
                   => \A i \in DOMAIN issued'[t] :
                         issued'[t][i].cmd \in PoolMutations
                            => issued'[t][i].dev = volumeName'[t]]_vars

\* C35: a publish request never ends abnormally: whatever the
\* configuration, a request with both fields ends by returning success or a
\* typed failure.
C35_PublishAnswers ==
    \A t \in Threads :
       (op[t] = "publish" /\ volumeName[t] # "" /\ mountPath[t] # "")
          => /\ pc[t] = "nret"
             /\ err[t] \in {"nil", "InvalidArgument"}

\* C36: the pool's lock is free whenever no
\* EnsureVolumeIsPresent / EnsureVolumeIsAbsent call is between its Lock and
\* its return, and every caller that waits for the lock gets it and
\* completes its call.
C36_AsClaimed ==
    /\ []((Running /\ \A t \in Threads : ~InCall(t)) => mutex = NoThread)
    /\ \A t \in Threads : (pc[t] = "lock") ~> (pc[t] = "idle")

====
